---- MODULE Spec2Model ----
(***************************************************************************)
(* Idea aggregator: the storage layer (src/database/store.py) and the      *)
(* deduplicator (src/analysis/process.py).                                 *)
(*                                                                         *)
(* Storage.  A DatabaseManager owns two tables, raw_ideas and              *)
(* analyzed_ideas, on one of two backends chosen by db_type: the embedded  *)
(* SQLite store or the hosted Supabase store.  A table is the sequence of  *)
(* its rows in insertion (rowid) order.  `managers` is the set of db_type  *)
(* values of the managers under observation: one manager in Spec, one per  *)
(* backend fed the same calls in SpecEquiv.                                *)
(*                                                                         *)
(* Time is counted in ticks, TicksPerDay ticks to a calendar day; the      *)
(* clock of the process and the clock of the database are the same clock.  *)
(*                                                                         *)
(* Deduplication.  IdeaProcessor._deduplicate_ideas is a function of its   *)
(* argument; SpecDedup applies it to every list of up to MaxIdeas ideas of *)
(* DedupPool.  A title is a sequence of characters; a description is kept  *)
(* as runs of equal characters and expanded where the code reads it.       *)
(***************************************************************************)
EXTENDS Integers, Sequences, FiniteSets, TLC

VARIABLES
    managers,        \* db_type of every DatabaseManager under observation
    hostedUnique,    \* whether the hand-made hosted tables declare hash unique
    faults,          \* whether the environment may make a statement raise
    raw_ideas,       \* raw_ideas[b]: rows of table raw_ideas on backend b
    analyzed_ideas,  \* analyzed_ideas[b]: rows of table analyzed_ideas
    now,             \* the clock, in ticks
    last,            \* the call made by the last step, with its arguments
    ret,             \* ret[b]: what that call returned on backend b
    input_ideas,     \* the list handed to _deduplicate_ideas
    hash_deduped,    \* its survivors of the fingerprint stage
    unique_ideas,    \* its result
    deduped_again,   \* the result of _deduplicate_ideas on its own result
    dstate,          \* "idle", "loaded", "deduplicated" or "rededuplicated"
    min_score_threshold, \* IdeaProcessor.min_score_threshold
    batches,         \* process_ideas: the batches of unique_ideas
    batch_i,         \* the batch in progress
    processed_batch, \* _process_ideas_batch: the ideas processed so far
    all_processed,   \* process_ideas: the ideas of the finished batches
    relevant_ideas,  \* process_ideas: the ideas the filter kept
    llm_calls,       \* every call of the generation capability, with its outcome
    pstate,          \* "idle", "ready", "analyzing", "done" or "raised"
    adapters,        \* adapters[k]: how the adapter of source k behaves
    futures,         \* futures[k]: "none", "queued", "running" or "done"
    results,         \* results[k]: what run_scraper gave for source k
    collected,       \* main: the futures whose result it has taken
    all_ideas,       \* main: the ideas gathered so far
    output_file,     \* main: what it wrote to raw_ideas_<date>.json
    ostate,          \* "idle", "collecting", "written" or "raised"
    db_config,       \* the config handed to DatabaseManager(config)
    environment,     \* os.environ and how the services answer
    manager,         \* the DatabaseManager under construction
    batch_size,      \* IdeaProcessor.batch_size
    in_flight,       \* the calls of the generation capability not yet returned
    finished,        \* the sources in the order in which their calls ended
    notifier,        \* the NotificationManager
    sends,           \* notify_top_ideas: every pass of its loop, with its outcome
    notify_ret,      \* what notify_top_ideas did: a count, or an exception
    subreddits,      \* RedditScraper: per subreddit, how each attempt goes
    sub_i,           \* run(): the subreddit being fetched
    tries,           \* the attempts made on that subreddit
    all_posts,       \* run(): the posts gathered so far
    fetch_log,       \* every attempt made, with what it gathered
    rstate,          \* "idle", "running" or "returned"
    relevant_files   \* data/processed/relevant_ideas_*.json, oldest first

storeVars == <<managers, hostedUnique, faults, raw_ideas, analyzed_ideas, now, last, ret>>

dedupVars == <<input_ideas, hash_deduped, unique_ideas, deduped_again, dstate>>

procVars == <<min_score_threshold, batches, batch_i, processed_batch, all_processed,
              relevant_ideas, llm_calls, pstate, batch_size, in_flight>>

orchVars == <<adapters, futures, results, collected, all_ideas, output_file, ostate,
              finished>>

ctorVars == <<db_config, environment, manager>>

notifVars == <<notifier, sends, notify_ret>>

redditVars == <<subreddits, sub_i, tries, all_posts, fetch_log, rstate>>

fileVars == <<relevant_files>>

vars == <<storeVars, dedupVars, procVars, orchVars, ctorVars, notifVars, redditVars,
          fileVars>>

Backends == {"sqlite", "supabase"}

----------------------------------------------------------------------------
(* Bounds of the model.                                                    *)

MaxBatch == 2      \* longest list handed to one store call, one table alone
MaxBatchAll == 1   \* longest list handed to one store call, both tables
MaxRows == 2       \* rows a table may grow to (the hosted tables are unbounded)
MaxTime == 2       \* last tick of the clock
MaxDays == 1       \* largest `days` handed to cleanup
MaxLimit == 2      \* largest `limit` handed to get_top
TicksPerDay == 2   \* clock ticks in one calendar day

Min(a, b) == IF a <= b THEN a ELSE b

Range(s) == {s[i] : i \in 1..Len(s)}

BoundedSeq(S, n) == UNION {[1..k -> S] : k \in 0..n}

----------------------------------------------------------------------------
(* Ideas handed to the storage layer.  An idea is a dict: a key may be     *)
(* absent.  `url` stands for the payload that the fingerprint does not     *)
(* cover (url, source, timestamp, raw_content).                            *)

A90 == [score |-> 90, tags |-> <<"saas">>, difficulty |-> "low", market_potential |-> "large"]
A40 == [score |-> 40, tags |-> <<>>, difficulty |-> "high", market_potential |-> "niche"]
APartial == [tags |-> <<"ai">>]

IdeaPool ==
    { [hash |-> "h1", url |-> "u1"],
      [hash |-> "h1", url |-> "u2", analysis |-> A90],
      [hash |-> "h1", url |-> "u1", analysis |-> A40],
      [hash |-> "h2", url |-> "u1", analysis |-> APartial] }

\* dict.get(key, default)
Get(d, key, default) == IF key \in DOMAIN d THEN d[key] ELSE default

HasRow(rows, h) == \E i \in 1..Len(rows) : rows[i].hash = h

----------------------------------------------------------------------------
(* store_raw_ideas                                                         *)

\* The column values bound by the INSERT into raw_ideas; created_at is the
\* column default.
RawRow(idea, t) ==
    [hash |-> Get(idea, "hash", ""), url |-> Get(idea, "url", ""), created_at |-> t]

\* An insert that overwrites the row already holding the hash.
insert_or_update(rows, row) ==
    IF HasRow(rows, row.hash)
    THEN [rows |-> [i \in 1..Len(rows) |->
                      IF rows[i].hash = row.hash THEN row ELSE rows[i]],
          rowcount |-> 1]
    ELSE [rows |-> Append(rows, row), rowcount |-> 1]

\* INSERT OR IGNORE INTO raw_ideas, hash UNIQUE: [rows, rowcount].
insert_or_ignore(rows, row) ==
    IF HasRow(rows, row.hash)
    THEN [rows |-> rows, rowcount |-> 0]
    ELSE [rows |-> Append(rows, row), rowcount |-> 1]

\* The loop without its inner try: the first raising statement ends it.
RECURSIVE store_raw_ideas_sqlite_abort(_, _, _, _, _)
store_raw_ideas_sqlite_abort(rows, count, ideas, fails, t) ==
    IF ideas = <<>> \/ Head(ideas) \in fails THEN [rows |-> rows, count |-> count]
    ELSE LET r == insert_or_ignore(rows, RawRow(Head(ideas), t))
         IN  store_raw_ideas_sqlite_abort(r.rows,
                                          IF r.rowcount > 0 THEN count + 1 ELSE count,
                                          Tail(ideas), fails, t)

\* One pass of the loop of _store_raw_ideas_sqlite: a raising statement is
\* caught and the loop goes on.
RECURSIVE store_raw_ideas_sqlite(_, _, _, _, _)
store_raw_ideas_sqlite(rows, count, ideas, fails, t) ==
    IF ideas = <<>> THEN [rows |-> rows, count |-> count]
    ELSE LET idea == Head(ideas)
             r == IF idea \in fails
                  THEN [rows |-> rows, rowcount |-> 0]
                  ELSE insert_or_ignore(rows, RawRow(idea, t))
         IN  store_raw_ideas_sqlite(r.rows,
                                    IF r.rowcount > 0 THEN count + 1 ELSE count,
                                    Tail(ideas), fails, t)

\* table("raw_ideas").insert(idea): the whole dict is sent.  The hosted
\* table has no column for a key the Analyzer added, and rejects a second
\* row with a stored hash only if the table was made with hash unique.
\* [rows, data]: data is empty when the insert raised.
hosted_insert_raw(rows, idea, t, unique) ==
    IF "analysis" \in DOMAIN idea \/ (unique /\ HasRow(rows, Get(idea, "hash", "")))
    THEN [rows |-> rows, data |-> <<>>]
    ELSE [rows |-> Append(rows, RawRow(idea, t)), data |-> <<RawRow(idea, t)>>]

RECURSIVE store_raw_ideas_supabase(_, _, _, _, _, _)
store_raw_ideas_supabase(rows, count, ideas, fails, t, unique) ==
    IF ideas = <<>> THEN [rows |-> rows, count |-> count]
    ELSE LET idea == Head(ideas)
             r == IF idea \in fails
                  THEN [rows |-> rows, data |-> <<>>]
                  ELSE hosted_insert_raw(rows, idea, t, unique)
         IN  store_raw_ideas_supabase(r.rows,
                                      IF r.data # <<>> THEN count + 1 ELSE count,
                                      Tail(ideas), fails, t, unique)

\* DatabaseManager.store_raw_ideas on backend b.
store_raw_ideas(b, rows, ideas, fails, t, unique) ==
    IF ideas = <<>> THEN [rows |-> rows, count |-> 0]
    ELSE IF b = "supabase"
         THEN store_raw_ideas_supabase(rows, 0, ideas, fails, t, unique)
         ELSE store_raw_ideas_sqlite(rows, 0, ideas, fails, t)

----------------------------------------------------------------------------
(* store_analyzed_ideas                                                    *)

\* The column values bound by the INSERT into analyzed_ideas.
AnalyzedRow(idea) ==
    LET analysis == Get(idea, "analysis", <<>>)
    IN  [hash |-> Get(idea, "hash", ""),
         url |-> Get(idea, "url", ""),
         analysis |-> analysis,
         score |-> Get(analysis, "score", 0),
         tags |-> Get(analysis, "tags", <<>>),
         difficulty |-> Get(analysis, "difficulty", "medium"),
         market_potential |-> Get(analysis, "market_potential", "moderate")]

\* INSERT OR REPLACE INTO analyzed_ideas, hash UNIQUE: the row holding the
\* hash is deleted and the new row gets a fresh rowid.
insert_or_replace(rows, row) ==
    [rows |-> Append(SelectSeq(rows, LAMBDA r : r.hash # row.hash), row),
     rowcount |-> 1]

RECURSIVE store_analyzed_ideas_sqlite(_, _, _, _)
store_analyzed_ideas_sqlite(rows, count, ideas, fails) ==
    IF ideas = <<>> THEN [rows |-> rows, count |-> count]
    ELSE LET idea == Head(ideas)
             r == IF idea \in fails
                  THEN [rows |-> rows, rowcount |-> 0]
                  ELSE insert_or_replace(rows, AnalyzedRow(idea))
         IN  store_analyzed_ideas_sqlite(r.rows,
                                         IF r.rowcount > 0 THEN count + 1 ELSE count,
                                         Tail(ideas), fails)

\* table("analyzed_ideas").insert(idea_data): a plain insert.
hosted_insert_analyzed(rows, idea, unique) ==
    IF unique /\ HasRow(rows, Get(idea, "hash", ""))
    THEN [rows |-> rows, data |-> <<>>]
    ELSE [rows |-> Append(rows, AnalyzedRow(idea)), data |-> <<AnalyzedRow(idea)>>]

RECURSIVE store_analyzed_ideas_supabase(_, _, _, _, _)
store_analyzed_ideas_supabase(rows, count, ideas, fails, unique) ==
    IF ideas = <<>> THEN [rows |-> rows, count |-> count]
    ELSE LET idea == Head(ideas)
             r == IF idea \in fails
                  THEN [rows |-> rows, data |-> <<>>]
                  ELSE hosted_insert_analyzed(rows, idea, unique)
         IN  store_analyzed_ideas_supabase(r.rows,
                                           IF r.data # <<>> THEN count + 1 ELSE count,
                                           Tail(ideas), fails, unique)

\* [idea for idea in ideas if "analysis" in idea]
WithAnalysis(ideas) == SelectSeq(ideas, LAMBDA idea : "analysis" \in DOMAIN idea)

\* DatabaseManager.store_analyzed_ideas on backend b.
store_analyzed_ideas(b, rows, ideas, fails, unique) ==
    LET analyzed == WithAnalysis(ideas)
    IN  IF ideas = <<>> \/ analyzed = <<>> THEN [rows |-> rows, count |-> 0]
        ELSE IF b = "supabase"
             THEN store_analyzed_ideas_supabase(rows, 0, analyzed, fails, unique)
             ELSE store_analyzed_ideas_sqlite(rows, 0, analyzed, fails)

----------------------------------------------------------------------------
(* get_top_ideas                                                           *)

\* WHERE score >= ?   /   .gte("score", min_score)
where_score_gte(rows, min_score) == SelectSeq(rows, LAMBDA r : r.score >= min_score)

\* ORDER BY score DESC  /  .order("score", desc=True).  The order of rows
\* of equal score is the engine's choice: rowid order, or its reverse when
\* tiesRev.
RECURSIVE InsertByScore(_, _, _)
InsertByScore(sorted, row, tiesRev) ==
    IF sorted = <<>> THEN <<row>>
    ELSE IF Head(sorted).score > row.score
            \/ (~tiesRev /\ Head(sorted).score = row.score)
         THEN <<Head(sorted)>> \o InsertByScore(Tail(sorted), row, tiesRev)
         ELSE <<row>> \o sorted

RECURSIVE OrderFrom(_, _, _)
OrderFrom(sorted, rows, tiesRev) ==
    IF rows = <<>> THEN sorted
    ELSE OrderFrom(InsertByScore(sorted, Head(rows), tiesRev), Tail(rows), tiesRev)

\* The query without its ORDER BY: rows come in rowid order.
order_by_rowid(rows, tiesRev) == rows

order_by_score_desc(rows, tiesRev) == OrderFrom(<<>>, rows, tiesRev)

\* LIMIT ?   /   .limit(limit)
limit_rows(rows, limit) == SubSeq(rows, 1, Min(limit, Len(rows)))

\* DatabaseManager.get_top_ideas: the same query on both backends; a
\* raising query is caught and gives [].
get_top_ideas(rows, limit, min_score, tiesRev, error) ==
    IF error THEN <<>>
    ELSE limit_rows(order_by_score_desc(where_score_gte(rows, min_score), tiesRev), limit)

----------------------------------------------------------------------------
(* cleanup_old_raw_ideas                                                   *)

\* date(x): the calendar day of a timestamp.
date(t) == t \div TicksPerDay

\* datetime.now() - timedelta(days=days)
cutoff(t, days) == t - days * TicksPerDay

\* DELETE FROM raw_ideas WHERE date(created_at) < date(?), the parameter
\* being the cutoff formatted "%Y-%m-%d".
cleanup_old_raw_ideas_sqlite(rows, days, t) ==
    LET cutoff_date == date(cutoff(t, days))
        kept == SelectSeq(rows, LAMBDA r : ~(date(r.created_at) < cutoff_date))
    IN  [rows |-> kept, count |-> Len(rows) - Len(kept)]

\* table("raw_ideas").delete().lt("created_at", cutoff_date), the cutoff
\* in isoformat(); the count is len(result.data).
cleanup_old_raw_ideas_supabase(rows, days, t) ==
    LET cutoff_date == cutoff(t, days)
        data == SelectSeq(rows, LAMBDA r : r.created_at < cutoff_date)
    IN  [rows |-> SelectSeq(rows, LAMBDA r : ~(r.created_at < cutoff_date)),
         count |-> Len(data)]

\* DatabaseManager.cleanup_old_raw_ideas on backend b; a raising statement
\* is caught and gives 0.
cleanup_old_raw_ideas(b, rows, days, t, error) ==
    IF error THEN [rows |-> rows, count |-> 0]
    ELSE IF b = "supabase"
         THEN cleanup_old_raw_ideas_supabase(rows, days, t)
         ELSE cleanup_old_raw_ideas_sqlite(rows, days, t)

----------------------------------------------------------------------------
(* The storage layer as a state machine: one step is one call of a public  *)
(* method, made on every manager under observation.                        *)

NoRet == [b \in Backends |-> [count |-> 0, result |-> <<>>]]

Call(op, ideas, fails, days, limit, min_score, error) ==
    [op |-> op, ideas |-> ideas, fails |-> fails, days |-> days,
     limit |-> limit, min_score |-> min_score, error |-> error]

MinScores == {0, 65}

InitStore(ms) ==
    /\ managers = ms
    /\ raw_ideas = [b \in Backends |-> <<>>]
    /\ analyzed_ideas = [b \in Backends |-> <<>>]
    /\ now = 0
    /\ last = Call("init", <<>>, {}, 0, 0, 0, FALSE)
    /\ ret = NoRet

DedupIdle ==
    /\ input_ideas = <<>>
    /\ hash_deduped = <<>>
    /\ unique_ideas = <<>>
    /\ deduped_again = <<>>
    /\ dstate = "idle"

ProcIdle ==
    /\ min_score_threshold = 65
    /\ batches = <<>>
    /\ batch_i = 1
    /\ processed_batch = <<>>
    /\ all_processed = <<>>
    /\ relevant_ideas = <<>>
    /\ llm_calls = <<>>
    /\ pstate = "idle"
    /\ batch_size = 5
    /\ in_flight = {}

OrchIdle ==
    /\ adapters = <<>>
    /\ futures = <<>>
    /\ results = <<>>
    /\ collected = 0
    /\ all_ideas = <<>>
    /\ output_file = <<>>
    /\ ostate = "idle"
    /\ finished = <<>>

NoManager ==
    [built |-> FALSE, raised |-> FALSE, db_type |-> "", supabase |-> FALSE,
     conn |-> "none", tables |-> {}]

NoNotifier == [built |-> FALSE, telegram_enabled |-> FALSE, min_score |-> 80]

NotifIdle ==
    /\ notifier = NoNotifier
    /\ sends = <<>>
    /\ notify_ret = [state |-> "none", count |-> 0]

RedditIdle ==
    /\ subreddits = <<>>
    /\ sub_i = 1
    /\ tries = 0
    /\ all_posts = <<>>
    /\ fetch_log = <<>>
    /\ rstate = "idle"

FilesIdle == relevant_files = <<>>

CtorIdle ==
    /\ db_config = [type |-> "sqlite", db_path |-> "data/ideas.db"]
    /\ environment = [SUPABASE_URL |-> "", SUPABASE_KEY |-> "",
                      create_client |-> "ok", sqlite |-> "ok"]
    /\ manager = NoManager

\* DatabaseManager(config): one manager, on the backend its db_type names.
Init ==
    /\ \E db_type \in Backends :
          /\ InitStore({db_type})
          /\ hostedUnique \in (IF db_type = "supabase" THEN BOOLEAN ELSE {FALSE})
    /\ faults = TRUE
    /\ DedupIdle
    /\ ProcIdle
    /\ OrchIdle
    /\ CtorIdle
    /\ NotifIdle
    /\ RedditIdle
    /\ FilesIdle

\* Two managers, one per backend, both empty, in an environment where no
\* statement raises.
InitEquiv ==
    /\ InitStore(Backends)
    /\ hostedUnique \in BOOLEAN
    /\ faults = FALSE
    /\ DedupIdle
    /\ ProcIdle
    /\ OrchIdle
    /\ CtorIdle
    /\ NotifIdle
    /\ RedditIdle
    /\ FilesIdle

StoreRaw(ideas, fails) ==
    LET r == [b \in Backends |->
                 IF b \in managers
                 THEN store_raw_ideas(b, raw_ideas[b], ideas, fails, now, hostedUnique)
                 ELSE [rows |-> raw_ideas[b], count |-> 0]]
    IN  /\ \A b \in Backends : Len(r[b].rows) <= MaxRows
        /\ raw_ideas' = [b \in Backends |-> r[b].rows]
        /\ ret' = [b \in Backends |-> [count |-> r[b].count, result |-> <<>>]]
        /\ last' = Call("store_raw", ideas, fails, 0, 0, 0, FALSE)
        /\ UNCHANGED <<managers, hostedUnique, faults, analyzed_ideas, now, dedupVars,
                       procVars, orchVars, ctorVars, notifVars, redditVars, fileVars>>

StoreAnalyzed(ideas, fails) ==
    LET r == [b \in Backends |->
                 IF b \in managers
                 THEN store_analyzed_ideas(b, analyzed_ideas[b], ideas, fails, hostedUnique)
                 ELSE [rows |-> analyzed_ideas[b], count |-> 0]]
    IN  /\ \A b \in Backends : Len(r[b].rows) <= MaxRows
        /\ analyzed_ideas' = [b \in Backends |-> r[b].rows]
        /\ ret' = [b \in Backends |-> [count |-> r[b].count, result |-> <<>>]]
        /\ last' = Call("store_analyzed", ideas, fails, 0, 0, 0, FALSE)
        /\ UNCHANGED <<managers, hostedUnique, faults, raw_ideas, now, dedupVars,
                       procVars, orchVars, ctorVars, notifVars, redditVars, fileVars>>

GetTop(limit, min_score, tiesRev, error) ==
    /\ ret' = [b \in Backends |->
                 [count |-> 0,
                  result |-> IF b \in managers
                             THEN get_top_ideas(analyzed_ideas[b], limit, min_score,
                                                tiesRev, error)
                             ELSE <<>>]]
    /\ last' = Call("get_top", <<>>, {}, 0, limit, min_score, error)
    /\ UNCHANGED <<managers, hostedUnique, faults, raw_ideas, analyzed_ideas, now,
                   dedupVars, procVars, orchVars, ctorVars, notifVars, redditVars,
                   fileVars>>

\* A cleanup whose DELETE also empties analyzed_ideas.
CleanupBothTables(days, error) ==
    LET r == [b \in Backends |->
                 IF b \in managers
                 THEN cleanup_old_raw_ideas(b, raw_ideas[b], days, now, error)
                 ELSE [rows |-> raw_ideas[b], count |-> 0]]
    IN  /\ raw_ideas' = [b \in Backends |-> r[b].rows]
        /\ analyzed_ideas' = [b \in Backends |->
                                 IF b \in managers /\ ~error THEN <<>> ELSE analyzed_ideas[b]]
        /\ ret' = [b \in Backends |-> [count |-> r[b].count, result |-> <<>>]]
        /\ last' = Call("cleanup", <<>>, {}, days, 0, 0, error)
        /\ UNCHANGED <<managers, hostedUnique, faults, now, dedupVars, procVars,
                       orchVars, ctorVars, notifVars, redditVars, fileVars>>

CleanupOldRaw(days, error) ==
    LET r == [b \in Backends |->
                 IF b \in managers
                 THEN cleanup_old_raw_ideas(b, raw_ideas[b], days, now, error)
                 ELSE [rows |-> raw_ideas[b], count |-> 0]]
    IN  /\ raw_ideas' = [b \in Backends |-> r[b].rows]
        /\ ret' = [b \in Backends |-> [count |-> r[b].count, result |-> <<>>]]
        /\ last' = Call("cleanup", <<>>, {}, days, 0, 0, error)
        /\ UNCHANGED <<managers, hostedUnique, faults, analyzed_ideas, now, dedupVars,
                       procVars, orchVars, ctorVars, notifVars, redditVars, fileVars>>

\* Time passes between two calls.
Tick ==
    /\ now < MaxTime
    /\ now' = now + 1
    /\ last' = Call("tick", <<>>, {}, 0, 0, 0, FALSE)
    /\ ret' = NoRet
    /\ UNCHANGED <<managers, hostedUnique, faults, raw_ideas, analyzed_ideas,
                   dedupVars, procVars, orchVars, ctorVars, notifVars, redditVars,
                   fileVars>>

StoreRawCalls(n) ==
    \E ideas \in BoundedSeq(IdeaPool, n) : \E fails \in SUBSET Range(ideas) :
       /\ faults \/ fails = {}
       /\ StoreRaw(ideas, fails)

StoreAnalyzedCalls(n) ==
    \E ideas \in BoundedSeq(IdeaPool, n) : \E fails \in SUBSET Range(ideas) :
       /\ faults \/ fails = {}
       /\ StoreAnalyzed(ideas, fails)

GetTopCalls ==
    \E limit \in 0..MaxLimit, min_score \in MinScores, tiesRev, error \in BOOLEAN :
       /\ faults \/ ~error
       /\ GetTop(limit, min_score, tiesRev, error)

CleanupCalls ==
    \E days \in 0..MaxDays, error \in BOOLEAN :
       /\ faults \/ ~error
       /\ CleanupOldRaw(days, error)

\* The calls on table raw_ideas, with lists of up to MaxBatch ideas.
NextRaw ==
    \/ StoreRawCalls(MaxBatch)
    \/ CleanupCalls
    \/ Tick

\* The calls on table analyzed_ideas, with lists of up to MaxBatch ideas.
NextAnalyzed ==
    \/ StoreAnalyzedCalls(MaxBatch)
    \/ GetTopCalls

\* Every call, with lists of up to MaxBatchAll ideas.
Next ==
    \/ StoreRawCalls(MaxBatchAll)
    \/ StoreAnalyzedCalls(MaxBatchAll)
    \/ GetTopCalls
    \/ CleanupCalls
    \/ Tick

SpecRaw == Init /\ [][NextRaw]_vars

SpecAnalyzed == Init /\ [][NextAnalyzed]_vars

Spec == Init /\ [][Next]_vars

SpecEquiv == InitEquiv /\ [][Next]_vars

\* The two store calls alone, with lists of up to MaxBatch ideas.
NextStore ==
    \/ StoreRawCalls(MaxBatch)
    \/ StoreAnalyzedCalls(MaxBatch)

SpecStore == Init /\ [][NextStore]_vars

----------------------------------------------------------------------------
(* store.py main(): the storage step over one processed list               *)

DefaultDays == 30   \* cleanup_old_raw_ideas(days=30)
MaxMonths == 2      \* months the clock may advance
MaxProcessed == 2   \* longest processed list

\* One manager on either backend, its tables empty, no statement raising
\* by itself.
InitArchive ==
    /\ \E db_type \in Backends :
          /\ InitStore({db_type})
          /\ hostedUnique \in (IF db_type = "supabase" THEN BOOLEAN ELSE {FALSE})
    /\ faults = FALSE
    /\ DedupIdle
    /\ ProcIdle
    /\ OrchIdle
    /\ CtorIdle
    /\ NotifIdle
    /\ RedditIdle
    /\ FilesIdle

\* main(): store_raw_ideas, store_analyzed_ideas, cleanup_old_raw_ideas()
\* over the ideas of the latest processed file.
Archive(processed_ideas) ==
    LET raw == [b \in Backends |->
                   IF b \in managers
                   THEN store_raw_ideas(b, raw_ideas[b], processed_ideas, {}, now,
                                        hostedUnique)
                   ELSE [rows |-> raw_ideas[b], count |-> 0]]
        analyzed == [b \in Backends |->
                        IF b \in managers
                        THEN store_analyzed_ideas(b, analyzed_ideas[b], processed_ideas,
                                                  {}, hostedUnique)
                        ELSE [rows |-> analyzed_ideas[b], count |-> 0]]
        cleaned == [b \in Backends |->
                       IF b \in managers
                       THEN cleanup_old_raw_ideas(b, raw[b].rows, DefaultDays, now, FALSE)
                       ELSE [rows |-> raw_ideas[b], count |-> 0]]
    IN  /\ \A b \in Backends :
              Len(raw[b].rows) <= MaxRows /\ Len(analyzed[b].rows) <= MaxRows
        /\ raw_ideas' = [b \in Backends |-> cleaned[b].rows]
        /\ analyzed_ideas' = [b \in Backends |-> analyzed[b].rows]
        /\ ret' = [b \in Backends |-> [count |-> cleaned[b].count, result |-> <<>>]]
        /\ last' = Call("archive", processed_ideas, {}, DefaultDays, 0, 0, FALSE)
        /\ UNCHANGED <<managers, hostedUnique, faults, now, dedupVars, procVars,
                       orchVars, ctorVars, notifVars, redditVars, fileVars>>

\* A month and a day pass between two runs.
MonthPasses ==
    /\ now < MaxMonths * (DefaultDays + 1) * TicksPerDay
    /\ now' = now + (DefaultDays + 1) * TicksPerDay
    /\ last' = Call("tick", <<>>, {}, 0, 0, 0, FALSE)
    /\ ret' = NoRet
    /\ UNCHANGED <<managers, hostedUnique, faults, raw_ideas, analyzed_ideas,
                   dedupVars, procVars, orchVars, ctorVars, notifVars, redditVars, fileVars>>

NextArchive ==
    \/ \E processed_ideas \in BoundedSeq(IdeaPool, MaxProcessed) : Archive(processed_ideas)
    \/ MonthPasses

SpecArchive == InitArchive /\ [][NextArchive]_vars

----------------------------------------------------------------------------
(* IdeaProcessor._deduplicate_ideas                                        *)

MaxIdeas == 3              \* longest list handed to the deduplicator
DescLimit == 200           \* description[:200]
SimilarityThreshold == 85  \* similarity_threshold * 100
TitleWeight == 7           \* title_similarity * 0.7, in tenths
DescWeight == 3            \* desc_similarity * 0.3, in tenths

None == "<None>"

\* Python's truth value of a hash field.
Truthy(h) == h # None /\ h # ""

\* The characters of a text kept as runs [c, n] of n characters c.
RECURSIVE Expand(_)
Expand(runs) ==
    IF runs = <<>> THEN <<>>
    ELSE [i \in 1..Head(runs).n |-> Head(runs).c] \o Expand(Tail(runs))

\* s[:n]
Slice(s, n) == SubSeq(s, 1, Min(n, Len(s)))

DescShort == <<[c |-> "p", n |-> 199], [c |-> "q", n |-> 1]>>
DescLong == <<[c |-> "p", n |-> 199], [c |-> "q", n |-> 1], [c |-> "r", n |-> 20]>>

\* Two titles of ratio 97 and two descriptions of ratio 57.
Title16 == [i \in 1..16 |-> "t"]
Title17 == Title16 \o <<"w">>
Desc7s == <<[c |-> "s", n |-> 4], [c |-> "u", n |-> 3]>>
Desc7v == <<[c |-> "s", n |-> 4], [c |-> "v", n |-> 3]>>

DedupPool ==
    { [hash |-> "h1", title |-> <<"a", "b">>, description |-> DescShort, url |-> "u1"],
      [hash |-> "h1", title |-> <<"a", "b">>, description |-> DescShort, url |-> "u2"],
      [hash |-> "h2", title |-> <<"a", "b", "c">>, description |-> DescLong, url |-> "u1"],
      [hash |-> "h3", title |-> <<"a", "b", "c", "d">>, description |-> DescShort, url |-> "u1"],
      [hash |-> "h4", title |-> <<"a", "b">>, description |-> <<>>, url |-> "u1"],
      [hash |-> "h5", title |-> Title16, description |-> Desc7s, url |-> "u1"],
      [hash |-> "h6", title |-> Title17, description |-> Desc7v, url |-> "u1"],
      [hash |-> "", title |-> <<"z", "z">>, description |-> <<>>, url |-> "u1"],
      [title |-> <<"z", "z">>, description |-> <<>>, url |-> "u2"] }

Max(a, b) == IF a >= b THEN a ELSE b

\* Columns lo..hi of one row of the matcher's table, appended to row:
\* row[j] is the number of matched characters of s1[1..i] and s2[1..j], ch
\* being s1[i] and prev the row of i - 1.  The range is halved, and its
\* first half evaluated before the second, to keep the evaluation shallow.
RECURSIVE MatchRow(_, _, _, _, _, _)
MatchRow(prev, ch, s2, lo, hi, row) ==
    IF lo > hi THEN row
    ELSE IF lo = hi
         THEN LET diag == IF lo = 1 THEN 0 ELSE prev[lo - 1]
                  left == IF lo = 1 THEN 0 ELSE row[lo - 1]
              IN  Append(row, IF ch = s2[lo] THEN diag + 1 ELSE Max(prev[lo], left))
         ELSE LET mid == (lo + hi) \div 2
                  first == MatchRow(prev, ch, s2, lo, mid, row)
              IN  IF Len(first) = mid THEN MatchRow(prev, ch, s2, mid + 1, hi, first)
                  ELSE <<>>

\* The last of the rows lo..hi, prev being the row of lo - 1.
RECURSIVE MatchRows(_, _, _, _, _)
MatchRows(s1, s2, lo, hi, prev) ==
    IF lo > hi THEN prev
    ELSE IF lo = hi THEN MatchRow(prev, s1[lo], s2, 1, Len(s2), <<>>)
         ELSE LET mid == (lo + hi) \div 2
                  first == MatchRows(s1, s2, lo, mid, prev)
              IN  IF Len(first) = Len(s2) THEN MatchRows(s1, s2, mid + 1, hi, first)
                  ELSE <<>>

\* The number of matched characters of s1 and s2: the length of their
\* longest common subsequence.
Matches(s1, s2) ==
    IF Len(s2) = 0 THEN 0
    ELSE MatchRows(s1, s2, 1, Len(s1), [j \in 1..Len(s2) |-> 0])[Len(s2)]

\* int(round(num / den)), Python's round: a half goes to the even integer.
intr(num, den) ==
    LET q == num \div den
        r == num % den
    IN  IF 2 * r < den THEN q
        ELSE IF 2 * r > den THEN q + 1
        ELSE IF q % 2 = 0 THEN q ELSE q + 1

\* fuzz.ratio(s1, s2): 100 for equal strings, 0 when one is empty, else
\* 100 * 2M/T rounded, M the matched characters and T the total length.
ratio(s1, s2) ==
    IF s1 = s2 THEN 100
    ELSE IF Len(s1) = 0 \/ Len(s2) = 0 THEN 0
    ELSE intr(100 * 2 * Matches(s1, s2), Len(s1) + Len(s2))

title_similarity(idea, unique_idea) ==
    ratio(Get(idea, "title", <<>>), Get(unique_idea, "title", <<>>))

desc_similarity(idea, unique_idea) ==
    ratio(Slice(Expand(Get(idea, "description", <<>>)), DescLimit),
          Slice(Expand(Get(unique_idea, "description", <<>>)), DescLimit))

\* similarity >= self.similarity_threshold * 100, in tenths.  The sum is
\* made in doubles: it equals the exact sum compared with 85.0 for every
\* pair of ratios but (97, 57), where 67.9 + 17.1 gives 84.99999999999999.
is_duplicate_of(idea, unique_idea) ==
    LET t == title_similarity(idea, unique_idea)
        d == desc_similarity(idea, unique_idea)
    IN  /\ TitleWeight * t + DescWeight * d >= SimilarityThreshold * 10
        /\ <<t, d>> # <<97, 57>>

\* The first loop without its "not in hash_map": a later idea replaces
\* the value stored under its fingerprint.
RECURSIVE hash_dedup_last_wins(_, _)
hash_dedup_last_wins(hash_map, ideas) ==
    IF ideas = <<>> THEN hash_map
    ELSE LET idea == Head(ideas)
             idea_hash == Get(idea, "hash", None)
             seen == {k \in 1..Len(hash_map) : hash_map[k].hash = idea_hash}
         IN  IF ~Truthy(idea_hash) THEN hash_dedup_last_wins(hash_map, Tail(ideas))
             ELSE IF seen = {}
                  THEN hash_dedup_last_wins(Append(hash_map, idea), Tail(ideas))
                  ELSE hash_dedup_last_wins(
                          [k \in 1..Len(hash_map) |->
                              IF k \in seen THEN idea ELSE hash_map[k]],
                          Tail(ideas))

\* hash_map after the first loop, as list(hash_map.values()): a dict keeps
\* its keys in the order of their first insertion.
RECURSIVE hash_dedup(_, _)
hash_dedup(hash_map, ideas) ==
    IF ideas = <<>> THEN hash_map
    ELSE LET idea == Head(ideas)
             idea_hash == Get(idea, "hash", None)
         IN  IF Truthy(idea_hash)
                /\ ~\E k \in 1..Len(hash_map) : hash_map[k].hash = idea_hash
             THEN hash_dedup(Append(hash_map, idea), Tail(ideas))
             ELSE hash_dedup(hash_map, Tail(ideas))

\* A second loop in which a duplicate takes the place of the accepted idea
\* it resembles: last-seen-wins.
RECURSIVE fuzzy_dedup_replace(_, _)
fuzzy_dedup_replace(unique, candidates) ==
    IF candidates = <<>> THEN unique
    ELSE LET idea == Head(candidates)
             dups == {k \in 1..Len(unique) : is_duplicate_of(idea, unique[k])}
             first == CHOOSE k \in dups : \A l \in dups : k <= l
         IN  fuzzy_dedup_replace(
                IF dups = {} THEN Append(unique, idea)
                ELSE [k \in 1..Len(unique) |-> IF k = first THEN idea ELSE unique[k]],
                Tail(candidates))

\* The second loop: an idea is compared with the ideas accepted so far.
RECURSIVE fuzzy_dedup(_, _)
fuzzy_dedup(unique, candidates) ==
    IF candidates = <<>> THEN unique
    ELSE LET idea == Head(candidates)
             is_duplicate == \E k \in 1..Len(unique) : is_duplicate_of(idea, unique[k])
         IN  fuzzy_dedup(IF is_duplicate THEN unique ELSE Append(unique, idea),
                         Tail(candidates))

deduplicate_ideas(ideas) ==
    IF ideas = <<>> THEN <<>> ELSE fuzzy_dedup(<<>>, hash_dedup(<<>>, ideas))

InitDedup ==
    /\ InitStore({"sqlite"})
    /\ hostedUnique = FALSE
    /\ faults = FALSE
    /\ input_ideas \in BoundedSeq(DedupPool, MaxIdeas)
    /\ hash_deduped = <<>>
    /\ unique_ideas = <<>>
    /\ deduped_again = <<>>
    /\ dstate = "loaded"
    /\ ProcIdle
    /\ OrchIdle
    /\ CtorIdle
    /\ NotifIdle
    /\ RedditIdle
    /\ FilesIdle

Deduplicate ==
    /\ dstate = "loaded"
    /\ hash_deduped' = (IF input_ideas = <<>> THEN <<>> ELSE hash_dedup(<<>>, input_ideas))
    /\ unique_ideas' = deduplicate_ideas(input_ideas)
    /\ dstate' = "deduplicated"
    /\ UNCHANGED <<input_ideas, deduped_again, storeVars, procVars, orchVars, ctorVars,
                   notifVars, redditVars, fileVars>>

\* _deduplicate_ideas(unique_ideas): the result handed back to the method.
Rededuplicate ==
    /\ dstate = "deduplicated"
    /\ deduped_again' = deduplicate_ideas(unique_ideas)
    /\ dstate' = "rededuplicated"
    /\ UNCHANGED <<input_ideas, hash_deduped, unique_ideas, storeVars, procVars,
                   orchVars, ctorVars, notifVars, redditVars, fileVars>>

NextDedup ==
    \/ Deduplicate
    \/ Rededuplicate

SpecDedup == InitDedup /\ [][NextDedup]_vars

----------------------------------------------------------------------------
(* scrapers/main.py: normalize_data                                        *)

\* What an adapter returns: a mapping with, at least or not, title,
\* description and url.
RawRecords ==
    { [title |-> <<"a", "b">>, description |-> DescShort, url |-> "u1"],
      [title |-> <<"a", "b">>, description |-> DescShort, url |-> "u2"],
      [title |-> <<"a", "b", "c", "d">>, description |-> DescShort, url |-> "u1"],
      [title |-> <<"a", "b">>, url |-> "u1"],
      [title |-> <<"a">>, description |-> <<[c |-> "b", n |-> 1]>>,
       analysis |-> [score |-> 90]] }

\* hashlib.md5(text).hexdigest(): a function of the text alone, taken to
\* be free of collisions; the digest of each text of the model is named.
md5(text) ==
    CASE text = <<"a", "b">> \o Expand(DescShort) -> "h1"
      [] text = <<"a", "b", "c", "d">> \o Expand(DescShort) -> "h3"
      [] text = <<"a", "b">> -> "h4"
      [] OTHER -> "h9"

\* normalize_data(data, source) at time t; json.dumps(data) is the record
\* of the text it gives.
normalize_data(data, source, t) ==
    [title |-> Get(data, "title", <<>>),
     description |-> Get(data, "description", <<>>),
     url |-> Get(data, "url", ""),
     source |-> source,
     timestamp |-> t,
     raw_content |-> [json |-> data],
     hash |-> md5(Get(data, "title", <<>>) \o Expand(Get(data, "description", <<>>)))]

----------------------------------------------------------------------------
(* scrapers/main.py: run_scraper and main                                  *)

NumSources == 4   \* the entries of SCRAPER_CONFIG taken into the model
max_workers == 3

\* The keys of SCRAPER_CONFIG that scraper_map knows, in their order.
AllSources == <<"ProductHunt", "Reddit", "HackerNews", "HuntScreens", "Aquaire">>

Sources == SubSeq(AllSources, 1, Min(NumSources, Len(AllSources)))

\* How an adapter can behave: its entry may be disabled; its constructor
\* may raise; run() may raise, or return records, one of which json.dumps
\* may be unable to serialize.
Behaviours ==
    { [enabled |-> FALSE, does |-> "returns", records |-> <<>>],
      [enabled |-> TRUE, does |-> "init_raises", records |-> <<>>],
      [enabled |-> TRUE, does |-> "run_raises", records |-> <<>>],
      [enabled |-> TRUE, does |-> "unserializable",
       records |-> <<[title |-> <<"a", "b">>, url |-> "u1"]>>],
      [enabled |-> TRUE, does |-> "returns",
       records |-> <<[title |-> <<"a", "b">>, url |-> "u1"]>>],
      [enabled |-> TRUE, does |-> "returns",
       records |-> <<[title |-> <<"a", "b">>, description |-> DescShort, url |-> "u2"],
                     [title |-> <<"a">>, description |-> <<[c |-> "b", n |-> 1]>>,
                      analysis |-> [score |-> 90]]>>] }

\* A run_scraper with no try: the adapter's exception leaves it.
run_scraper_unguarded(adapter, source_name, t) ==
    IF ~adapter.enabled THEN [raised |-> FALSE, ideas |-> <<>>]
    ELSE IF adapter.does # "returns" THEN [raised |-> TRUE, ideas |-> <<>>]
    ELSE [raised |-> FALSE,
          ideas |-> [k \in 1..Len(adapter.records) |->
                        normalize_data(adapter.records[k], source_name, t)]]

\* run_scraper(scraper_class, config) at time t.  raised: whether an
\* exception leaves the function.
run_scraper(adapter, source_name, t) ==
    IF ~adapter.enabled THEN [raised |-> FALSE, ideas |-> <<>>]
    ELSE IF adapter.does \in {"init_raises", "run_raises", "unserializable"}
         THEN [raised |-> FALSE, ideas |-> <<>>]
         ELSE [raised |-> FALSE,
               ideas |-> [k \in 1..Len(adapter.records) |->
                             normalize_data(adapter.records[k], source_name, t)]]

\* main() has submitted one run_scraper per source to the executor.
InitOrch ==
    /\ InitStore({"sqlite"})
    /\ hostedUnique = FALSE
    /\ faults = FALSE
    /\ DedupIdle
    /\ ProcIdle
    /\ adapters \in [1..Len(Sources) -> Behaviours]
    /\ futures = [k \in 1..Len(Sources) |-> "queued"]
    /\ results = [k \in 1..Len(Sources) |-> [raised |-> FALSE, ideas |-> <<>>]]
    /\ collected = 0
    /\ all_ideas = <<>>
    /\ output_file = <<>>
    /\ ostate = "collecting"
    /\ finished = <<>>
    /\ CtorIdle
    /\ NotifIdle
    /\ RedditIdle
    /\ FilesIdle

Running == {k \in 1..Len(futures) : futures[k] = "running"}

\* A free worker of the pool takes the oldest queued call.
StartScraper(k) ==
    /\ ostate = "collecting"
    /\ futures[k] = "queued"
    /\ \A j \in 1..(k - 1) : futures[j] # "queued"
    /\ Cardinality(Running) < max_workers
    /\ futures' = [futures EXCEPT ![k] = "running"]
    /\ UNCHANGED <<adapters, results, collected, all_ideas, output_file, ostate, finished,
                   storeVars, dedupVars, procVars, ctorVars, notifVars, redditVars, fileVars>>

\* The call for source k ends.
FinishScraper(k) ==
    /\ ostate = "collecting"
    /\ futures[k] = "running"
    /\ results' = [results EXCEPT ![k] = run_scraper(adapters[k], Sources[k], now)]
    /\ futures' = [futures EXCEPT ![k] = "done"]
    /\ finished' = Append(finished, k)
    /\ UNCHANGED <<adapters, collected, all_ideas, output_file, ostate,
                   storeVars, dedupVars, procVars, ctorVars, notifVars, redditVars, fileVars>>

\* A main that takes the results as the calls end (as_completed).
CollectAsCompleted ==
    /\ ostate = "collecting"
    /\ collected < Len(finished)
    /\ collected' = collected + 1
    /\ IF results[finished[collected + 1]].raised
       THEN /\ ostate' = "raised"
            /\ UNCHANGED all_ideas
       ELSE /\ all_ideas' = all_ideas \o results[finished[collected + 1]].ideas
            /\ UNCHANGED ostate
    /\ UNCHANGED <<adapters, futures, results, output_file, finished, storeVars, dedupVars,
                   procVars, ctorVars, notifVars, redditVars, fileVars>>

\* main: future.result() of the next future, in the order of submission;
\* an exception of the call is raised again here.
CollectResult ==
    /\ ostate = "collecting"
    /\ collected < Len(futures)
    /\ futures[collected + 1] = "done"
    /\ collected' = collected + 1
    /\ IF results[collected + 1].raised
       THEN /\ ostate' = "raised"
            /\ UNCHANGED all_ideas
       ELSE /\ all_ideas' = all_ideas \o results[collected + 1].ideas
            /\ UNCHANGED ostate
    /\ UNCHANGED <<adapters, futures, results, output_file, finished, storeVars, dedupVars,
                   procVars, ctorVars, notifVars, redditVars, fileVars>>

\* main: json.dump(all_ideas) to the file of the day.
WriteOutput ==
    /\ ostate = "collecting"
    /\ collected = Len(futures)
    /\ output_file' = all_ideas
    /\ ostate' = "written"
    /\ UNCHANGED <<adapters, futures, results, collected, all_ideas, finished,
                   storeVars, dedupVars, procVars, ctorVars, notifVars, redditVars, fileVars>>

NextOrch ==
    \/ \E k \in 1..Len(Sources) : StartScraper(k)
    \/ \E k \in 1..Len(Sources) : FinishScraper(k)
    \/ CollectResult
    \/ WriteOutput

SpecOrch == InitOrch /\ [][NextOrch]_vars

----------------------------------------------------------------------------
(* IdeaProcessor: _analyze_idea_with_llm, _process_ideas_batch and         *)
(* process_ideas.                                                          *)
(*                                                                         *)
(* The text of a response is a sequence of tokens: the braces, a comma, a  *)
(* word of prose, or a member of a JSON object.  A member is the record of *)
(* its key; the member "score": "85", whose value is a string, is the      *)
(* record [score |-> 85, score_type |-> "string"].                         *)

MaxProc == 3     \* longest list handed to process_ideas
BatchSize == 2   \* batch_size

LBrace == [p |-> "{"]
RBrace == [p |-> "}"]
Comma == [p |-> ","]
Prose == [p |-> "prose"]
Punctuation == {LBrace, RBrace, Comma, Prose}

Score90 == [score |-> 90]
Score40 == [score |-> 40]
Score150 == [score |-> 150]
ScoreStr85 == [score |-> 85, score_type |-> "string"]
Tags == [tags |-> <<"ai">>]

\* What requests.post gives: it raises, or answers with a status and a
\* body; the body is no JSON document, or a document whose "response" is
\* a text.
Responses ==
    { [raises |-> TRUE],
      [status_code |-> 500],
      [status_code |-> 200, body |-> "not json"],
      [status_code |-> 200, response |-> <<Prose, LBrace, Score90, RBrace, Prose>>],
      [status_code |-> 200, response |-> <<LBrace, Score40, Comma, Tags, RBrace>>],
      [status_code |-> 200, response |-> <<LBrace, Tags, RBrace>>],
      [status_code |-> 200, response |-> <<LBrace, Score150, RBrace>>],
      [status_code |-> 200, response |-> <<LBrace, ScoreStr85, RBrace>>],
      [status_code |-> 200, response |-> <<Prose>>],
      [status_code |-> 200, response |-> <<RBrace, Prose, LBrace>>],
      [status_code |-> 200,
       response |-> <<LBrace, Score90, RBrace, Prose, LBrace, Score40, RBrace>>] }

\* str.find and str.rfind, with 0 for Python's -1 and positions from 1.
find(text, tok) ==
    LET at == {i \in 1..Len(text) : text[i] = tok}
    IN  IF at = {} THEN 0 ELSE CHOOSE i \in at : \A j \in at : i <= j

rfind(text, tok) ==
    LET at == {i \in 1..Len(text) : text[i] = tok}
    IN  IF at = {} THEN 0 ELSE CHOOSE i \in at : \A j \in at : i >= j

\* dict[key] = value for the key of member m: a later member replaces an
\* earlier one of its key.
SetMember(obj, m) ==
    LET keep == IF "score" \in DOMAIN m THEN DOMAIN obj \ {"score", "score_type"}
                ELSE DOMAIN obj \ DOMAIN m
    IN  [k \in keep \cup DOMAIN m |-> IF k \in DOMAIN m THEN m[k] ELSE obj[k]]

\* The members between the braces: member (, member)*.  [ok, value].
RECURSIVE parse_members(_, _, _)
parse_members(toks, obj, expectMember) ==
    IF toks = <<>> THEN [ok |-> ~expectMember, value |-> obj]
    ELSE IF expectMember
         THEN IF Head(toks) \in Punctuation THEN [ok |-> FALSE, value |-> obj]
              ELSE parse_members(Tail(toks), SetMember(obj, Head(toks)), FALSE)
         ELSE IF Head(toks) = Comma THEN parse_members(Tail(toks), obj, TRUE)
              ELSE [ok |-> FALSE, value |-> obj]

\* json.loads of a text that starts with "{" and ends with "}": ok is
\* FALSE where it raises JSONDecodeError.  No text of Responses is "{}".
json_loads(json_str) ==
    LET inner == SubSeq(json_str, 2, Len(json_str) - 1)
        first == parse_members(Tail(inner), Head(inner), FALSE)
    IN  IF inner = <<>> \/ Head(inner) \in Punctuation
        THEN [ok |-> FALSE, value |-> <<>>]
        ELSE first

\* An analyzer that attaches whatever lies between the braces, parsed or
\* not.
analyze_idea_unparsed(idea, resp, t) ==
    IF "raises" \in DOMAIN resp THEN idea
    ELSE IF resp.status_code # 200 THEN idea
    ELSE IF "response" \notin DOMAIN resp THEN idea
    ELSE LET json_start == find(resp.response, LBrace)
             json_end == rfind(resp.response, RBrace)
         IN  IF json_start >= 1 /\ json_end > json_start
             THEN [k \in DOMAIN idea \cup {"analysis", "analysis_timestamp"} |->
                      IF k = "analysis" THEN [summary |-> "unparsed"]
                      ELSE IF k = "analysis_timestamp" THEN t
                      ELSE idea[k]]
             ELSE idea

\* _analyze_idea_with_llm(idea) where requests.post gives resp at time t:
\* the idea, with analysis and analysis_timestamp set or as it was.  Every
\* exception is caught.
analyze_idea_with_llm(idea, resp, t) ==
    IF "raises" \in DOMAIN resp THEN idea
    ELSE IF resp.status_code # 200 THEN idea
    ELSE IF "response" \notin DOMAIN resp THEN idea
    ELSE LET llm_response == resp.response
             json_start == find(llm_response, LBrace)
             json_end == rfind(llm_response, RBrace)
             parsed == json_loads(SubSeq(llm_response, json_start, json_end))
         IN  IF json_start >= 1 /\ json_end > json_start /\ parsed.ok
             THEN [k \in DOMAIN idea \cup {"analysis", "analysis_timestamp"} |->
                      IF k = "analysis" THEN parsed.value
                      ELSE IF k = "analysis_timestamp" THEN t
                      ELSE idea[k]]
             ELSE idea

\* A loop that keeps only the ideas that gained an analysis.
batch_append_analyzed(batch, idea, resp, t) ==
    LET processed_idea == analyze_idea_with_llm(idea, resp, t)
    IN  IF "analysis" \in DOMAIN processed_idea THEN Append(batch, processed_idea)
        ELSE batch

\* The body of the loop of _process_ideas_batch.
batch_append(batch, idea, resp, t) == Append(batch, analyze_idea_with_llm(idea, resp, t))

\* Slices that start batch_size + 1 apart: the idea between two slices is
\* in no batch.
BatchesSkipping(ideas, size) ==
    [k \in 1..((Len(ideas) + size) \div (size + 1)) |->
        SubSeq(ideas, (k - 1) * (size + 1) + 1, Min((k - 1) * (size + 1) + size, Len(ideas)))]

\* [unique_ideas[i:i+batch_size] for i in range(0, len(unique_ideas), batch_size)]
Batches(ideas, size) ==
    [k \in 1..((Len(ideas) + size - 1) \div size) |->
        SubSeq(ideas, (k - 1) * size + 1, Min(k * size, Len(ideas)))]

\* idea["analysis"].get("score", 0) >= threshold; Python raises TypeError
\* where the score is a string.
ScoreRaises(idea) ==
    "analysis" \in DOMAIN idea /\ "score_type" \in DOMAIN idea.analysis

IsRelevant(idea, threshold) ==
    "analysis" \in DOMAIN idea /\ Get(idea.analysis, "score", 0) >= threshold

\* The loop over all_processed: [raised, ideas].
RECURSIVE relevance_filter(_, _, _)
relevance_filter(relevant, ideas, threshold) ==
    IF ideas = <<>> THEN [raised |-> FALSE, ideas |-> relevant]
    ELSE IF ScoreRaises(Head(ideas)) THEN [raised |-> TRUE, ideas |-> relevant]
    ELSE relevance_filter(IF IsRelevant(Head(ideas), threshold)
                          THEN Append(relevant, Head(ideas)) ELSE relevant,
                          Tail(ideas), threshold)

Thresholds == {0, 65, 101}

\* The ideas of a file of raw ideas: what the orchestrator wrote.
ProcPool == {normalize_data(data, "Reddit", 0) : data \in RawRecords}

\* IdeaProcessor(config) and a file of raw ideas to load.
InitProcess ==
    /\ InitStore({"sqlite"})
    /\ hostedUnique = FALSE
    /\ faults = FALSE
    /\ input_ideas \in BoundedSeq(ProcPool, MaxProc)
    /\ hash_deduped = <<>>
    /\ unique_ideas = <<>>
    /\ deduped_again = <<>>
    /\ dstate = "idle"
    /\ min_score_threshold \in Thresholds
    /\ batches = <<>>
    /\ batch_i = 1
    /\ processed_batch = <<>>
    /\ all_processed = <<>>
    /\ relevant_ideas = <<>>
    /\ llm_calls = <<>>
    /\ pstate = "ready"
    /\ batch_size = BatchSize
    /\ in_flight = {}
    /\ OrchIdle
    /\ CtorIdle
    /\ NotifIdle
    /\ RedditIdle
    /\ FilesIdle

\* process_ideas up to its loop over the batches: load, deduplicate, split.
\* An empty file ends the call with ([], []).
LoadAndSplit ==
    /\ pstate = "ready"
    /\ unique_ideas' = deduplicate_ideas(input_ideas)
    /\ batches' = Batches(unique_ideas', batch_size)
    /\ pstate' = (IF input_ideas = <<>> THEN "done" ELSE "analyzing")
    /\ UNCHANGED <<input_ideas, hash_deduped, deduped_again, dstate, storeVars,
                   min_score_threshold, batch_i, processed_batch, all_processed,
                   relevant_ideas, llm_calls, batch_size, in_flight, orchVars, ctorVars,
                   notifVars, redditVars, fileVars>>

\* One pass of the loop of _process_ideas_batch; after the last idea of the
\* batch the batch is returned and process_ideas extends all_processed.
AnalyzeIdea(resp) ==
    /\ pstate = "analyzing"
    /\ batch_i <= Len(batches)
    /\ LET batch == batches[batch_i]
           idea == batch[Len(processed_batch) + 1]
           done == batch_append(processed_batch, idea, resp, now)
       IN  /\ llm_calls' = Append(llm_calls, [idea |-> idea, resp |-> resp])
           /\ IF Len(done) >= Len(batch)
              THEN /\ all_processed' = all_processed \o done
                   /\ processed_batch' = <<>>
                   /\ batch_i' = batch_i + 1
              ELSE /\ processed_batch' = done
                   /\ UNCHANGED <<all_processed, batch_i>>
    /\ UNCHANGED <<dedupVars, storeVars, min_score_threshold, batches, relevant_ideas,
                   pstate, batch_size, in_flight, orchVars, ctorVars, notifVars,
                   redditVars, fileVars>>

\* A filter that hands the relevant ideas back newest first.
FilterRelevantNewestFirst ==
    /\ pstate = "analyzing"
    /\ batch_i > Len(batches)
    /\ LET r == relevance_filter(<<>>, all_processed, min_score_threshold)
       IN  /\ relevant_ideas' = [k \in 1..Len(r.ideas) |-> r.ideas[Len(r.ideas) + 1 - k]]
           /\ pstate' = (IF r.raised THEN "raised" ELSE "done")
    /\ UNCHANGED <<dedupVars, storeVars, min_score_threshold, batches, batch_i,
                   processed_batch, all_processed, llm_calls, batch_size, in_flight,
                   orchVars, ctorVars, notifVars, redditVars, fileVars>>

\* process_ideas after its loop: the relevance filter, and the return of
\* (all_processed, relevant_ideas) unless the comparison raised.
FilterRelevant ==
    /\ pstate = "analyzing"
    /\ batch_i > Len(batches)
    /\ LET r == relevance_filter(<<>>, all_processed, min_score_threshold)
       IN  /\ relevant_ideas' = r.ideas
           /\ pstate' = (IF r.raised THEN "raised" ELSE "done")
    /\ UNCHANGED <<dedupVars, storeVars, min_score_threshold, batches, batch_i,
                   processed_batch, all_processed, llm_calls, batch_size, in_flight,
                   orchVars, ctorVars, notifVars, redditVars, fileVars>>

NextProcess ==
    \/ LoadAndSplit
    \/ \E resp \in Responses : AnalyzeIdea(resp)
    \/ FilterRelevant

SpecProcess == InitProcess /\ [][NextProcess]_vars

----------------------------------------------------------------------------
(* The calls of the generation capability, one step to issue a call and    *)
(* one for its return                                                      *)

\* A loop that posts the next idea of the batch without waiting for the
\* calls before it.
IssueCallEager ==
    /\ pstate = "analyzing"
    /\ batch_i <= Len(batches)
    /\ Len(processed_batch) + Cardinality(in_flight) < Len(batches[batch_i])
    /\ LET idea == batches[batch_i][Len(processed_batch) + Cardinality(in_flight) + 1]
       IN  llm_calls' = Append(llm_calls, [idea |-> idea])
    /\ in_flight' = in_flight \cup {Len(llm_calls) + 1}
    /\ UNCHANGED <<dedupVars, storeVars, min_score_threshold, batches, batch_i,
                   processed_batch, all_processed, relevant_ideas, pstate, batch_size,
                   orchVars, ctorVars, notifVars, redditVars, fileVars>>

\* _analyze_idea_with_llm: requests.post(...) for the next idea of the
\* batch.  The thread waits in the call, so none is outstanding.
IssueCall ==
    /\ pstate = "analyzing"
    /\ batch_i <= Len(batches)
    /\ in_flight = {}
    /\ LET idea == batches[batch_i][Len(processed_batch) + 1]
       IN  llm_calls' = Append(llm_calls, [idea |-> idea])
    /\ in_flight' = {Len(llm_calls) + 1}
    /\ UNCHANGED <<dedupVars, storeVars, min_score_threshold, batches, batch_i,
                   processed_batch, all_processed, relevant_ideas, pstate, batch_size,
                   orchVars, ctorVars, notifVars, redditVars, fileVars>>

\* The oldest outstanding call returns or raises; the rest of the pass of
\* the loop of _process_ideas_batch follows, and after the last idea of
\* the batch process_ideas extends all_processed.
CallReturns(resp) ==
    /\ pstate = "analyzing"
    /\ in_flight # {}
    /\ LET call == CHOOSE c \in in_flight : \A d \in in_flight : c <= d
           batch == batches[batch_i]
           done == batch_append(processed_batch, llm_calls[call].idea, resp, now)
       IN  /\ in_flight' = in_flight \ {call}
           /\ IF Len(done) >= Len(batch)
              THEN /\ all_processed' = all_processed \o done
                   /\ processed_batch' = <<>>
                   /\ batch_i' = batch_i + 1
              ELSE /\ processed_batch' = done
                   /\ UNCHANGED <<all_processed, batch_i>>
    /\ UNCHANGED <<dedupVars, storeVars, min_score_threshold, batches, relevant_ideas,
                   llm_calls, pstate, batch_size, orchVars, ctorVars, notifVars,
                   redditVars, fileVars>>

NextCalls ==
    \/ LoadAndSplit
    \/ IssueCall
    \/ \E resp \in Responses : CallReturns(resp)
    \/ in_flight = {} /\ FilterRelevant

SpecCalls == InitProcess /\ [][NextCalls]_vars

----------------------------------------------------------------------------
(* From the adapters' records to the relevant list: scrapers/main.py main  *)
(* writes the file of raw ideas, analysis/process.py loads and processes   *)
(* it                                                                      *)

MaxRecords == 2    \* most records one adapter returns
OrderSources == 2  \* the sources taken into this pipeline

\* An adapter returns up to MaxRecords records, or its run() raises.
OrderBehaviours ==
    {[enabled |-> TRUE, does |-> "returns", records |-> r] :
        r \in BoundedSeq(RawRecords, MaxRecords)}
    \cup {[enabled |-> TRUE, does |-> "run_raises", records |-> <<>>]}

\* Answers of the generation capability: it raises, gives a score of 90,
\* of 40, or a score that is a string.
OrderResponses ==
    { [raises |-> TRUE],
      [status_code |-> 200, response |-> <<Prose, LBrace, Score90, RBrace, Prose>>],
      [status_code |-> 200, response |-> <<LBrace, Score40, Comma, Tags, RBrace>>],
      [status_code |-> 200, response |-> <<LBrace, ScoreStr85, RBrace>>] }

InitOrder ==
    /\ InitStore({"sqlite"})
    /\ hostedUnique = FALSE
    /\ faults = FALSE
    /\ DedupIdle
    /\ min_score_threshold \in {0, 65}
    /\ batches = <<>>
    /\ batch_i = 1
    /\ processed_batch = <<>>
    /\ all_processed = <<>>
    /\ relevant_ideas = <<>>
    /\ llm_calls = <<>>
    /\ pstate = "idle"
    /\ batch_size = BatchSize
    /\ in_flight = {}
    /\ adapters \in [1..OrderSources -> OrderBehaviours]
    /\ futures = [k \in 1..OrderSources |-> "queued"]
    /\ results = [k \in 1..OrderSources |-> [raised |-> FALSE, ideas |-> <<>>]]
    /\ collected = 0
    /\ all_ideas = <<>>
    /\ output_file = <<>>
    /\ ostate = "collecting"
    /\ finished = <<>>
    /\ CtorIdle
    /\ NotifIdle
    /\ RedditIdle
    /\ FilesIdle

\* main() of the orchestrator as one step: every run_scraper returns, the
\* results are concatenated in the order of the futures and written.
RECURSIVE ExtendAll(_, _, _)
ExtendAll(ideas, res, k) ==
    IF k > Len(res) THEN ideas ELSE ExtendAll(ideas \o res[k].ideas, res, k + 1)

ScrapeAll ==
    /\ ostate = "collecting"
    /\ results' = [k \in 1..Len(adapters) |-> run_scraper(adapters[k], Sources[k], now)]
    /\ futures' = [k \in 1..Len(adapters) |-> "done"]
    /\ finished' = [k \in 1..Len(adapters) |-> k]
    /\ collected' = Len(adapters)
    /\ all_ideas' = ExtendAll(<<>>, results', 1)
    /\ output_file' = all_ideas'
    /\ ostate' = "written"
    /\ UNCHANGED <<adapters, storeVars, dedupVars, procVars, ctorVars, notifVars,
                   redditVars, fileVars>>

\* _load_raw_ideas: the content of the latest file of raw ideas.
LoadRawIdeas ==
    /\ ostate = "written"
    /\ pstate = "idle"
    /\ input_ideas' = output_file
    /\ pstate' = "ready"
    /\ UNCHANGED <<hash_deduped, unique_ideas, deduped_again, dstate, storeVars,
                   min_score_threshold, batches, batch_i, processed_batch, all_processed,
                   relevant_ideas, llm_calls, batch_size, in_flight, orchVars, ctorVars,
                   notifVars, redditVars, fileVars>>

NextOrder ==
    \/ ScrapeAll
    \/ LoadRawIdeas
    \/ LoadAndSplit
    \/ \E resp \in OrderResponses : AnalyzeIdea(resp)
    \/ FilterRelevant

SpecOrder == InitOrder /\ [][NextOrder]_vars

----------------------------------------------------------------------------
(* scrapers/reddit.py: RedditScraper.run and _fetch_subreddit_posts        *)

MaxSubreddits == 2   \* most subreddits configured
MaxPosts == 2        \* most posts of one listing
max_tries == 3

\* The first subreddits of SCRAPER_CONFIG["Reddit"]["params"].
SubredditNames == <<"SaaS", "microsaas", "SomeoneShouldMake">>

\* post_data of the post at place n of the listing of a subreddit.
PostData(subreddit_name, n) == [title |-> n, subreddit |-> subreddit_name]

\* What one call of _fetch_subreddit_posts can have appended to its local
\* `posts` when it returns or raises: posts of the listing, in its order.
Gathered(subreddit_name, keep) ==
    SelectSeq([n \in 1..MaxPosts |-> PostData(subreddit_name, n)],
              LAMBDA post : post.title \in keep)

\* An attempt whose `posts` outlives the call: what a failed attempt
\* gathered is handed on.
fetch_attempt_shared(self, posts, ok) ==
    IF ok
    THEN [sub_i |-> self.sub_i + 1, tries |-> 0,
          all_posts |-> self.all_posts \o posts, raised |-> FALSE]
    ELSE IF self.tries + 1 >= max_tries
         THEN [sub_i |-> self.sub_i + 1, tries |-> 0,
               all_posts |-> self.all_posts \o posts, raised |-> FALSE]
         ELSE [sub_i |-> self.sub_i, tries |-> self.tries + 1,
               all_posts |-> self.all_posts \o posts, raised |-> FALSE]

\* One call of the body of _fetch_subreddit_posts inside run(): it returns
\* its posts and run() extends all_posts, or it raises; backoff calls it
\* again until max_tries calls were made, then the exception reaches
\* run(), which logs it and goes on with the next subreddit.
fetch_attempt(self, posts, ok) ==
    IF ok
    THEN [sub_i |-> self.sub_i + 1, tries |-> 0,
          all_posts |-> self.all_posts \o posts, raised |-> FALSE]
    ELSE IF self.tries + 1 >= max_tries
         THEN [sub_i |-> self.sub_i + 1, tries |-> 0,
               all_posts |-> self.all_posts, raised |-> FALSE]
         ELSE [sub_i |-> self.sub_i, tries |-> self.tries + 1,
               all_posts |-> self.all_posts, raised |-> FALSE]

\* RedditScraper(subreddits, ...) and the start of run().
InitReddit ==
    /\ InitStore({"sqlite"})
    /\ hostedUnique = FALSE
    /\ faults = FALSE
    /\ DedupIdle
    /\ ProcIdle
    /\ OrchIdle
    /\ CtorIdle
    /\ NotifIdle
    /\ FilesIdle
    /\ subreddits \in {SubSeq(SubredditNames, 1, n) :
                          n \in 0..Min(MaxSubreddits, Len(SubredditNames))}
    /\ sub_i = 1
    /\ tries = 0
    /\ all_posts = <<>>
    /\ fetch_log = <<>>
    /\ rstate = "running"

FetchAttempt(keep, ok) ==
    /\ rstate = "running"
    /\ sub_i <= Len(subreddits)
    /\ LET posts == Gathered(subreddits[sub_i], keep)
           after == fetch_attempt([sub_i |-> sub_i, tries |-> tries,
                                   all_posts |-> all_posts], posts, ok)
       IN  /\ sub_i' = after.sub_i
           /\ tries' = after.tries
           /\ all_posts' = after.all_posts
           /\ rstate' = (IF after.raised THEN "raised" ELSE "running")
           /\ fetch_log' = Append(fetch_log, [subreddit |-> subreddits[sub_i],
                                              attempt |-> tries + 1,
                                              posts |-> posts, ok |-> ok])
    /\ UNCHANGED <<subreddits, storeVars, dedupVars, procVars, orchVars, ctorVars,
                   notifVars, fileVars>>

\* run() returns all_posts.
ReturnPosts ==
    /\ rstate = "running"
    /\ sub_i > Len(subreddits)
    /\ rstate' = "returned"
    /\ UNCHANGED <<subreddits, sub_i, tries, all_posts, fetch_log, storeVars, dedupVars,
                   procVars, orchVars, ctorVars, notifVars, fileVars>>

NextReddit ==
    \/ \E ok \in BOOLEAN : \E keep \in SUBSET (1..MaxPosts) : FetchAttempt(keep, ok)
    \/ ReturnPosts

SpecReddit == InitReddit /\ [][NextReddit]_vars

----------------------------------------------------------------------------
(* process_ideas for every batch_size                                      *)

MaxBatchSize == 4   \* largest batch_size

\* IdeaProcessor(config) with any batch_size >= 1 in LLM_CONFIG.
InitBatch ==
    /\ InitStore({"sqlite"})
    /\ hostedUnique = FALSE
    /\ faults = FALSE
    /\ input_ideas \in BoundedSeq(ProcPool, MaxProc)
    /\ hash_deduped = <<>>
    /\ unique_ideas = <<>>
    /\ deduped_again = <<>>
    /\ dstate = "idle"
    /\ min_score_threshold = 65
    /\ batches = <<>>
    /\ batch_i = 1
    /\ processed_batch = <<>>
    /\ all_processed = <<>>
    /\ relevant_ideas = <<>>
    /\ llm_calls = <<>>
    /\ pstate = "ready"
    /\ batch_size \in 1..MaxBatchSize
    /\ in_flight = {}
    /\ OrchIdle
    /\ CtorIdle
    /\ NotifIdle
    /\ RedditIdle
    /\ FilesIdle

NextBatch ==
    \/ LoadAndSplit
    \/ \E resp \in OrderResponses : AnalyzeIdea(resp)
    \/ FilterRelevant

SpecBatch == InitBatch /\ [][NextBatch]_vars

----------------------------------------------------------------------------
(* The processed list handed to the storage layer                          *)

MaxAgree == 2   \* longest file of raw ideas

\* IdeaProcessor(config), a file of raw ideas, and one DatabaseManager
\* with empty tables.
InitAgree ==
    /\ \E db_type \in Backends :
          /\ InitStore({db_type})
          /\ hostedUnique \in (IF db_type = "supabase" THEN BOOLEAN ELSE {FALSE})
    /\ faults = FALSE
    /\ input_ideas \in BoundedSeq(ProcPool, MaxAgree)
    /\ hash_deduped = <<>>
    /\ unique_ideas = <<>>
    /\ deduped_again = <<>>
    /\ dstate = "idle"
    /\ min_score_threshold \in Thresholds
    /\ batches = <<>>
    /\ batch_i = 1
    /\ processed_batch = <<>>
    /\ all_processed = <<>>
    /\ relevant_ideas = <<>>
    /\ llm_calls = <<>>
    /\ pstate = "ready"
    /\ batch_size = BatchSize
    /\ in_flight = {}
    /\ OrchIdle
    /\ CtorIdle
    /\ NotifIdle
    /\ RedditIdle
    /\ FilesIdle

\* store_analyzed_ideas(all_processed), once every batch is analyzed.
StoreProcessed ==
    /\ pstate \in {"analyzing", "done", "raised"}
    /\ batch_i > Len(batches)
    /\ last.op = "init"
    /\ LET r == [b \in Backends |->
                    IF b \in managers
                    THEN store_analyzed_ideas(b, analyzed_ideas[b], all_processed, {},
                                              hostedUnique)
                    ELSE [rows |-> analyzed_ideas[b], count |-> 0]]
       IN  /\ analyzed_ideas' = [b \in Backends |-> r[b].rows]
           /\ ret' = [b \in Backends |-> [count |-> r[b].count, result |-> <<>>]]
    /\ last' = Call("store_analyzed", all_processed, {}, 0, 0, 0, FALSE)
    /\ UNCHANGED <<managers, hostedUnique, faults, raw_ideas, now, dedupVars, procVars,
                   orchVars, ctorVars, notifVars, redditVars, fileVars>>

\* get_top_ideas(limit, min_score_threshold) on what was stored.
GetTopStored(limit, tiesRev) ==
    /\ last.op = "store_analyzed"
    /\ limit >= Len(all_processed)
    /\ ret' = [b \in Backends |->
                 [count |-> 0,
                  result |-> IF b \in managers
                             THEN get_top_ideas(analyzed_ideas[b], limit,
                                                min_score_threshold, tiesRev, FALSE)
                             ELSE <<>>]]
    /\ last' = Call("get_top", <<>>, {}, 0, limit, min_score_threshold, FALSE)
    /\ UNCHANGED <<managers, hostedUnique, faults, raw_ideas, analyzed_ideas, now,
                   dedupVars, procVars, orchVars, ctorVars, notifVars, redditVars, fileVars>>

NextAgree ==
    \/ LoadAndSplit
    \/ \E resp \in Responses : AnalyzeIdea(resp)
    \/ FilterRelevant
    \/ StoreProcessed
    \/ \E limit \in 0..(MaxAgree + 1), tiesRev \in BOOLEAN : GetTopStored(limit, tiesRev)

SpecAgree == InitAgree /\ [][NextAgree]_vars

----------------------------------------------------------------------------
(* NotificationManager: __init__, _init_telegram_bot,                      *)
(* send_telegram_notification, notify_top_ideas                            *)

MaxNotify == 3   \* longest list handed to notify_top_ideas

\* _init_telegram_bot(): without a token or a chat id, or when Bot()
\* raises, the manager disables itself.
init_telegram_bot(self, env) ==
    IF ~Truthy(env.TELEGRAM_BOT_TOKEN) \/ ~Truthy(env.TELEGRAM_CHAT_ID)
    THEN [self EXCEPT !.telegram_enabled = FALSE]
    ELSE IF env.Bot = "raises"
    THEN [self EXCEPT !.telegram_enabled = FALSE]
    ELSE self

\* NotificationManager(config).
NotificationManager(config, env) ==
    LET telegram == Get(config, "telegram", <<>>)
        self == [built |-> TRUE,
                 telegram_enabled |-> Get(telegram, "enabled", FALSE),
                 min_score |-> Get(telegram, "min_score_to_notify", 80)]
    IN  IF self.telegram_enabled THEN init_telegram_bot(self, env) ELSE self

\* send_telegram_notification(idea): [called, ok].  `how` is what happens
\* if it gets to work: the message cannot be formatted, send_message
\* raises TelegramError, or the message is sent.
send_telegram_notification(self, idea, how) ==
    IF ~self.telegram_enabled THEN [called |-> FALSE, ok |-> FALSE]
    ELSE IF how = "format_raises" THEN [called |-> FALSE, ok |-> FALSE]
    ELSE IF how = "TelegramError" THEN [called |-> TRUE, ok |-> FALSE]
    ELSE [called |-> TRUE, ok |-> TRUE]

\* A loop that gives up at the first send that fails.
RECURSIVE notify_loop_abort(_, _, _, _, _)
notify_loop_abort(self, ideas_to_notify, hows, log, sent_count) ==
    IF ideas_to_notify = <<>> THEN [sends |-> log, count |-> sent_count]
    ELSE LET idea == Head(ideas_to_notify)
             r == send_telegram_notification(self, idea, Head(hows))
             entry == [hash |-> idea.hash, called |-> r.called, ok |-> r.ok]
         IN  IF ~r.ok THEN [sends |-> Append(log, entry), count |-> sent_count]
             ELSE notify_loop_abort(self, Tail(ideas_to_notify), Tail(hows),
                                    Append(log, entry), sent_count + 1)

\* for idea in ideas_to_notify: if self.send_telegram_notification(idea):
\* sent_count += 1.  The log holds every pass of the loop: the idea,
\* whether bot.send_message was called, and whether it succeeded.
RECURSIVE notify_loop(_, _, _, _, _)
notify_loop(self, ideas_to_notify, hows, log, sent_count) ==
    IF ideas_to_notify = <<>> THEN [sends |-> log, count |-> sent_count]
    ELSE LET idea == Head(ideas_to_notify)
             r == send_telegram_notification(self, idea, Head(hows))
         IN  notify_loop(self, Tail(ideas_to_notify), Tail(hows),
                         Append(log, [hash |-> idea.hash, called |-> r.called,
                                      ok |-> r.ok]),
                         IF r.ok THEN sent_count + 1 ELSE sent_count)

\* notify_top_ideas(ideas, limit) with a list of ideas given.
notify_top_ideas(self, ideas, limit, hows) ==
    LET high_score_ideas ==
            SelectSeq(ideas, LAMBDA idea :
                Get(Get(idea, "analysis", <<>>), "score", 0) >= self.min_score)
        ideas_to_notify == SubSeq(high_score_ideas, 1, Min(limit, Len(high_score_ideas)))
    IN  IF ideas = <<>> \/ high_score_ideas = <<>>
        THEN [sends |-> <<>>, count |-> 0]
        ELSE notify_loop(self, ideas_to_notify, hows, <<>>, 0)

NotifyConfigs ==
    { [telegram |-> [enabled |-> TRUE, min_score_to_notify |-> 80]],
      [telegram |-> [enabled |-> TRUE, min_score_to_notify |-> 0]],
      [telegram |-> [enabled |-> TRUE]],
      [telegram |-> [enabled |-> FALSE, min_score_to_notify |-> 80]],
      [other |-> TRUE] }

NotifyEnvironments ==
    [TELEGRAM_BOT_TOKEN : {None, "", "token"},
     TELEGRAM_CHAT_ID : {None, "chat"},
     Bot : {"ok", "raises"}]

SendOutcomes == {"ok", "TelegramError", "format_raises"}

\* The analyzed ideas handed to the notifier.
NotifyPool == {idea \in IdeaPool : "analysis" \in DOMAIN idea}

\* A NotificationManager built from a config in an environment, and a
\* DatabaseManager with empty tables.
InitNotify ==
    /\ \E db_type \in Backends : InitStore({db_type})
    /\ hostedUnique = FALSE
    /\ faults = FALSE
    /\ DedupIdle
    /\ ProcIdle
    /\ OrchIdle
    /\ db_config \in NotifyConfigs
    /\ environment \in NotifyEnvironments
    /\ manager = NoManager
    /\ notifier = NotificationManager(db_config, environment)
    /\ sends = <<>>
    /\ notify_ret = [state |-> "none", count |-> 0]
    /\ RedditIdle
    /\ FilesIdle

\* notifier.notify_top_ideas(ideas=ideas, limit=limit): the store is not
\* read, and is taken empty.
NotifyTopIdeas(ideas, limit, hows) ==
    /\ notify_ret.state = "none"
    /\ last.op = "init"
    /\ LET r == notify_top_ideas(notifier, ideas, limit, hows)
       IN  /\ sends' = r.sends
           /\ notify_ret' = [state |-> "returned", count |-> r.count]
    /\ last' = Call("notify", ideas, {}, 0, limit, notifier.min_score, FALSE)
    /\ ret' = NoRet
    /\ UNCHANGED <<managers, hostedUnique, faults, raw_ideas, analyzed_ideas, now,
                   dedupVars, procVars, orchVars, ctorVars, notifier, redditVars,
                   fileVars>>

\* notifier.notify_top_ideas(limit=limit): the ideas are the rows that
\* get_top_ideas(limit, min_score) gives.
NotifyFromStore(limit, hows, tiesRev) ==
    \E b \in managers :
       LET ideas == get_top_ideas(analyzed_ideas[b], limit, notifier.min_score,
                                  tiesRev, FALSE)
           r == notify_top_ideas(notifier, ideas, limit, hows)
       IN  /\ notify_ret.state = "none"
           /\ sends' = r.sends
           /\ notify_ret' = [state |-> "returned", count |-> r.count]
           /\ last' = Call("notify_store", ideas, {}, 0, limit, notifier.min_score, FALSE)
           /\ ret' = NoRet
           /\ UNCHANGED <<managers, hostedUnique, faults, raw_ideas, analyzed_ideas, now,
                          dedupVars, procVars, orchVars, ctorVars, notifier, redditVars,
                          fileVars>>

\* One run of the notifier, over a list of ideas or over what an earlier
\* run of the storage step left in the store.
NextNotify ==
    \/ \E ideas \in BoundedSeq(NotifyPool, MaxNotify), limit \in 0..MaxNotify :
          \E hows \in [1..Min(limit, Len(ideas)) -> SendOutcomes] :
             NotifyTopIdeas(ideas, limit, hows)
    \/ \E limit \in 0..MaxNotify, tiesRev \in BOOLEAN :
          \E hows \in [1..Min(limit, MaxRows) -> SendOutcomes] :
             NotifyFromStore(limit, hows, tiesRev)
    \/ notify_ret.state = "none" /\ StoreAnalyzedCalls(MaxBatchAll)

SpecNotify == InitNotify /\ [][NextNotify]_vars

----------------------------------------------------------------------------
(* Processing runs and notification runs, handing over through the files   *)
(* relevant_ideas_<timestamp>.json                                         *)

MaxRuns == 3       \* processing runs
MaxFresh == 2      \* longest processed list of a run
DefaultLimit == 5  \* notify_top_ideas(ideas=None, limit=5)

\* What the batches of a run can have given: analyzed ideas of high and of
\* low score, and an idea whose analysis failed.
FreshPool ==
    { [hash |-> "h1", url |-> "u1", analysis |-> A90],
      [hash |-> "h2", url |-> "u1", analysis |-> A90],
      [hash |-> "h3", url |-> "u1", analysis |-> A40],
      [hash |-> "h4", url |-> "u1"] }

\* An empty data directory, an IdeaProcessor and a NotificationManager
\* with the notifications enabled and the credentials set.
InitFresh ==
    /\ InitStore({"sqlite"})
    /\ hostedUnique = FALSE
    /\ faults = FALSE
    /\ DedupIdle
    /\ ProcIdle
    /\ OrchIdle
    /\ db_config = [telegram |-> [enabled |-> TRUE, min_score_to_notify |-> 80]]
    /\ environment = [TELEGRAM_BOT_TOKEN |-> "token", TELEGRAM_CHAT_ID |-> "chat",
                      Bot |-> "ok"]
    /\ manager = NoManager
    /\ notifier = NotificationManager(db_config, environment)
    /\ sends = <<>>
    /\ notify_ret = [state |-> "none", count |-> 0]
    /\ RedditIdle
    /\ relevant_files = <<>>

\* `if relevant_ideas:` and the dump into relevant_ideas_<timestamp>.json.
save_relevant(files, relevant, timestamp) ==
    IF relevant # <<>>
    THEN Append(files, [timestamp |-> timestamp, ideas |-> relevant])
    ELSE files

\* One run of process_ideas from its relevance filter on, the batches
\* having given `processed`; with no raw idea it returns ([], []) and
\* writes nothing.
ProcessingRun(processed) ==
    /\ last.op # "process"
    /\ now < MaxRuns
    /\ now' = now + 1
    /\ all_processed' = processed
    /\ LET r == relevance_filter(<<>>, processed, min_score_threshold)
       IN  /\ relevant_ideas' = r.ideas
           /\ relevant_files' = (IF processed = <<>> THEN relevant_files
                                 ELSE save_relevant(relevant_files, r.ideas, now'))
    /\ last' = Call("process", processed, {}, 0, 0, min_score_threshold, FALSE)
    /\ UNCHANGED <<managers, hostedUnique, faults, raw_ideas, analyzed_ideas, ret,
                   dedupVars, min_score_threshold, batches, batch_i, processed_batch,
                   llm_calls, pstate, batch_size, in_flight, orchVars, ctorVars,
                   notifVars, redditVars>>

\* main() of the notifier: the latest file of relevant ideas, or the store
\* when there is none.
NotificationRun(hows) ==
    /\ last.op = "process"
    /\ LET ideas == IF relevant_files = <<>>
                    THEN get_top_ideas(analyzed_ideas["sqlite"], DefaultLimit,
                                       notifier.min_score, FALSE, FALSE)
                    ELSE relevant_files[Len(relevant_files)].ideas
           r == notify_top_ideas(notifier, ideas, DefaultLimit, hows)
       IN  /\ sends' = r.sends
           /\ notify_ret' = [state |-> "returned", count |-> r.count]
           /\ last' = Call("notify", ideas, {}, 0, DefaultLimit, notifier.min_score, FALSE)
    /\ UNCHANGED <<managers, hostedUnique, faults, raw_ideas, analyzed_ideas, now, ret,
                   dedupVars, procVars, orchVars, ctorVars, notifier, redditVars,
                   fileVars>>

NextFresh ==
    \/ \E processed \in BoundedSeq(FreshPool, MaxFresh) : ProcessingRun(processed)
    \/ \E hows \in [1..MaxFresh -> SendOutcomes] : NotificationRun(hows)

SpecFresh == InitFresh /\ [][NextFresh]_vars

----------------------------------------------------------------------------
(* Properties of the storage layer.                                        *)

Hashes == {Get(idea, "hash", "") : idea \in IdeaPool}

RowsWithHash(rows, h) == SelectSeq(rows, LAMBDA r : r.hash = h)

Count(seq, x) == Cardinality({i \in 1..Len(seq) : seq[i] = x})

\* The ideas of a store call whose insert did not raise.
Inserted(ideas, fails) == SelectSeq(ideas, LAMBDA idea : idea \notin fails)

\* C1: store_raw is insert-or-ignore by fingerprint: the raw table never
\* holds two rows with one fingerprint, a store_raw call leaves every row
\* that was already stored as it was, and it returns the number of rows it
\* added.
C1_StoreRawInsertOrIgnore ==
    /\ [](\A b \in managers : \A i, j \in 1..Len(raw_ideas[b]) :
             raw_ideas[b][i].hash = raw_ideas[b][j].hash => i = j)
    /\ [][last'.op = "store_raw" =>
             \A b \in managers :
                /\ Len(raw_ideas'[b]) >= Len(raw_ideas[b])
                /\ SubSeq(raw_ideas'[b], 1, Len(raw_ideas[b])) = raw_ideas[b]
                /\ ret'[b].count = Len(raw_ideas'[b]) - Len(raw_ideas[b])]_vars

\* C2: store_analyzed is insert-or-replace by fingerprint: after a
\* store_analyzed call every fingerprint of an analyzed idea of the call
\* has exactly one row, which carries the analysis of the last such idea,
\* and the rows of every other fingerprint are as they were (so an idea
\* without analysis creates and changes nothing).
C2_StoreAnalyzedInsertOrReplace ==
    [][last'.op = "store_analyzed" =>
          \A b \in managers : \A h \in Hashes :
             LET stored == RowsWithHash(Inserted(WithAnalysis(last'.ideas), last'.fails), h)
             IN  IF stored = <<>>
                 THEN RowsWithHash(analyzed_ideas'[b], h) = RowsWithHash(analyzed_ideas[b], h)
                 ELSE RowsWithHash(analyzed_ideas'[b], h)
                         = <<AnalyzedRow(stored[Len(stored)])>>]_vars

\* C3: fed the same calls from empty, the two backends return the same
\* counts and results and hold the same rows for every fingerprint.
C3_BackendsInterchangeable ==
    /\ ret["sqlite"] = ret["supabase"]
    /\ \A h \in Hashes :
          /\ RowsWithHash(raw_ideas["sqlite"], h) = RowsWithHash(raw_ideas["supabase"], h)
          /\ RowsWithHash(analyzed_ideas["sqlite"], h)
                = RowsWithHash(analyzed_ideas["supabase"], h)

\* C4: get_top(limit, min_score) returns stored rows, at most `limit` of
\* them, each of score >= min_score, in non-increasing score order, and no
\* row it leaves out has score >= min_score and a score above that of a
\* returned row; unless the query raised, it returns `limit` rows or every
\* row of score >= min_score.
C4_GetTopIsTopOfRanking ==
    last.op = "get_top" =>
       \A b \in managers :
          LET res == ret[b].result
              rows == analyzed_ideas[b]
              eligible == {i \in 1..Len(rows) : rows[i].score >= last.min_score}
          IN  /\ Len(res) <= last.limit
              /\ \A i \in 1..Len(res) : res[i].score >= last.min_score
              /\ \A i, j \in 1..Len(res) : i < j => res[i].score >= res[j].score
              /\ \A i \in 1..Len(res) : Count(res, res[i]) <= Count(rows, res[i])
              /\ \A i \in eligible : \A j \in 1..Len(res) :
                    Count(res, rows[i]) < Count(rows, rows[i])
                       => rows[i].score <= res[j].score
              /\ ~last.error => Len(res) = Min(last.limit, Cardinality(eligible))

\* A get_top that had to leave out a row of sufficient score.
C4_Witness ==
    /\ last.op = "get_top" /\ ~last.error /\ last.limit = 1
    /\ \E b \in managers :
          /\ Len(ret[b].result) = 1
          /\ \E i \in 1..Len(analyzed_ideas[b]) :
                /\ analyzed_ideas[b][i].score >= last.min_score
                /\ analyzed_ideas[b][i].score < ret[b].result[1].score

\* C5: a cleanup that does not raise deletes exactly the raw rows created
\* strictly before now - days, and returns how many it deleted.
C5_CleanupDeletesExactlyOlder ==
    [][(last'.op = "cleanup" /\ ~last'.error) =>
          \A b \in managers :
             /\ raw_ideas'[b] = SelectSeq(raw_ideas[b],
                                   LAMBDA r : r.created_at >= now - last'.days * TicksPerDay)
             /\ ret'[b].count = Len(raw_ideas[b]) - Len(raw_ideas'[b])]_vars

\* C6: cleanup_old_raw leaves table analyzed_ideas as it was, whether or
\* not it raised.
C6_CleanupLeavesAnalyzed ==
    [][last'.op = "cleanup" => analyzed_ideas' = analyzed_ideas]_vars

\* A cleanup that deleted raw rows of a manager holding analyzed rows.
C6_Witness ==
    /\ last.op = "cleanup"
    /\ \E b \in managers : ret[b].count > 0 /\ analyzed_ideas[b] # <<>>

\* The ideas of a raw store call that backend b can take: the hosted raw
\* table has no column for an analysis.
RawValid(b, idea) == b = "sqlite" \/ "analysis" \notin DOMAIN idea

\* C7: in store_raw and store_analyzed a raising insert is caught: every
\* other idea of the list is still inserted, and the call returns the
\* number of inserts that succeeded.
C7_RowFailureIsolated ==
    [][/\ last'.op = "store_raw" =>
             \A b \in managers :
                /\ ret'[b].count = Len(raw_ideas'[b]) - Len(raw_ideas[b])
                /\ \A idea \in Range(last'.ideas) \ last'.fails :
                      RawValid(b, idea) => HasRow(raw_ideas'[b], idea.hash)
                /\ \A r \in Range(raw_ideas'[b]) \ Range(raw_ideas[b]) :
                      \E idea \in Range(last'.ideas) \ last'.fails : r = RawRow(idea, now)
       /\ last'.op = "store_analyzed" =>
             \A b \in managers :
                LET tried == Inserted(WithAnalysis(last'.ideas), last'.fails)
                IN  /\ b = "sqlite" => ret'[b].count = Len(tried)
                    /\ b = "supabase" =>
                          ret'[b].count = Len(analyzed_ideas'[b]) - Len(analyzed_ideas[b])
                    /\ \A idea \in Range(tried) : HasRow(analyzed_ideas'[b], idea.hash)
                    /\ \A r \in Range(analyzed_ideas'[b]) \ Range(analyzed_ideas[b]) :
                          \E idea \in Range(tried) : r = AnalyzedRow(idea)]_vars

\* A store call whose first insert raised and whose second was stored.
C7_Witness ==
    /\ last.op \in {"store_raw", "store_analyzed"}
    /\ Len(last.ideas) = 2
    /\ last.ideas[1] \in last.fails
    /\ last.ideas[2] \notin last.fails
    /\ \E b \in managers : ret[b].count = 1

----------------------------------------------------------------------------
(* Properties of the deduplicator.                                         *)

HashOf(idea) == Get(idea, "hash", None)

\* The first position of fingerprint h in the input.
FirstPos(h) ==
    CHOOSE p \in 1..Len(input_ideas) :
       /\ HashOf(input_ideas[p]) = h
       /\ \A q \in 1..(p - 1) : HashOf(input_ideas[q]) # h

FirstSeenWins(out) ==
    /\ \A k, l \in 1..Len(out) : HashOf(out[k]) = HashOf(out[l]) => k = l
    /\ \A k \in 1..Len(out) :
          \E p \in 1..Len(input_ideas) :
             /\ input_ideas[p] = out[k]
             /\ \A q \in 1..(p - 1) : HashOf(input_ideas[q]) # HashOf(out[k])
    /\ \A k, l \in 1..Len(out) :
          k < l => FirstPos(HashOf(out[k])) < FirstPos(HashOf(out[l]))

\* C8: the fingerprint stage is first-seen-wins: no two survivors share a
\* fingerprint, each survivor is the earliest idea of the input with its
\* fingerprint, survivors keep the order of their first occurrence, and
\* every fingerprint of the input survives the stage; the same three hold
\* of the deduplicator's result.
C8_ExactStageFirstSeenWins ==
    dstate = "deduplicated" =>
       /\ FirstSeenWins(hash_deduped)
       /\ FirstSeenWins(unique_ideas)
       /\ \A p \in 1..Len(input_ideas) :
             Truthy(HashOf(input_ideas[p])) =>
                \E k \in 1..Len(hash_deduped) :
                   HashOf(hash_deduped[k]) = HashOf(input_ideas[p])

\* An input whose third idea repeats the fingerprint of the first with
\* another payload, and two survivors.
C8_Witness ==
    /\ dstate = "deduplicated"
    /\ Len(input_ideas) = 3
    /\ HashOf(input_ideas[1]) = HashOf(input_ideas[3])
    /\ input_ideas[1] # input_ideas[3]
    /\ Len(unique_ideas) = 2
    /\ unique_ideas[1] = input_ideas[1]

SameFingerprint ==
    /\ input_ideas # <<>>
    /\ \A p \in 1..Len(input_ideas) : HashOf(input_ideas[p]) = HashOf(input_ideas[1])

\* C9: a non-empty input whose ideas all carry one fingerprint, whatever
\* value the hash field holds, gives exactly one idea, the first.
C9_SameFingerprintAnyValue ==
    (dstate = "deduplicated" /\ SameFingerprint) => unique_ideas = <<input_ideas[1]>>

\* Where the one fingerprint is neither missing nor empty, the result is
\* the first idea.
TruthyFingerprintGivesFirst ==
    (dstate = "deduplicated" /\ SameFingerprint /\ Truthy(HashOf(input_ideas[1])))
       => unique_ideas = <<input_ideas[1]>>

\* The weighted similarity of the claim, in tenths: 7 x title ratio + 3 x
\* ratio of the first 200 description characters.
Weighted(x, y) ==
    7 * ratio(Get(x, "title", <<>>), Get(y, "title", <<>>))
    + 3 * ratio(Slice(Expand(Get(x, "description", <<>>)), 200),
                Slice(Expand(Get(y, "description", <<>>)), 200))

Similar(x, y) == Weighted(x, y) >= 850

\* The positions of hash_deduped whose idea is in the result.
Accepted == {k \in 1..Len(hash_deduped) : hash_deduped[k] \in Range(unique_ideas)}

\* C10: the result is the accepted survivors of the fingerprint stage in
\* their order, and a survivor is dropped if and only if its weighted
\* similarity (0.7 x title ratio + 0.3 x ratio of the first 200 description
\* characters) to an idea accepted before it is >= 85.
C10_FuzzyComparesAcceptedOnly ==
    dstate = "deduplicated" =>
       /\ unique_ideas = SelectSeq(hash_deduped, LAMBDA x : x \in Range(unique_ideas))
       /\ \A k \in 1..Len(hash_deduped) :
             k \notin Accepted
                <=> \E a \in Accepted : a < k /\ Similar(hash_deduped[k], hash_deduped[a])

\* C11: the deduplicator is idempotent: applied to its own result it
\* returns that result, the same ideas in the same order.
C11_DedupIdempotent ==
    dstate = "rededuplicated" => deduped_again = unique_ideas

\* A second application to a result of two ideas from which the first
\* application had dropped one.
C11_Witness ==
    /\ dstate = "rededuplicated"
    /\ Len(input_ideas) = 3
    /\ Len(unique_ideas) = 2
    /\ Len(hash_deduped) = 3
    /\ deduped_again = unique_ideas

----------------------------------------------------------------------------
(* Properties of the processor.                                            *)

HasAnalysis(idea) == "analysis" \in DOMAIN idea

\* The score of an analysis, 0 where it has none.
ScoreOf(idea) == Get(idea.analysis, "score", 0)

FilterRan == pstate \in {"done", "raised"} /\ input_ideas # <<>>

\* C12: the relevance filter returns exactly the ideas of the processed
\* list that carry an analysis of score >= min_score_threshold, in the
\* order of the processed list.
C12_FilterIsSubsequence ==
    FilterRan =>
       /\ pstate = "done"
       /\ relevant_ideas = SelectSeq(all_processed,
                              LAMBDA x : HasAnalysis(x) /\ ScoreOf(x) >= min_score_threshold)

\* C13: of whatever the analyzer produced, the filter with threshold 0
\* returns every idea that carries an analysis, and with threshold 101 it
\* returns the empty list.
C13_FilterBoundaryThresholds ==
    FilterRan =>
       /\ min_score_threshold = 0 =>
             /\ pstate = "done"
             /\ relevant_ideas = SelectSeq(all_processed, HasAnalysis)
       /\ min_score_threshold = 101 =>
             /\ pstate = "done"
             /\ relevant_ideas = <<>>

\* An idea as it was before the analyzer.
Strip(idea) ==
    [k \in DOMAIN idea \ {"analysis", "analysis_timestamp"} |-> idea[k]]

\* The ideas the analyzer has returned so far.
Processed == all_processed \o processed_batch

\* The tokens from the first "{" to the last "}" are a JSON object: the
\* braces, and between them members separated by commas.
IsObject(toks) ==
    LET n == Len(toks) - 2
    IN  /\ n >= 1
        /\ n % 2 = 1
        /\ toks[1] = LBrace
        /\ toks[Len(toks)] = RBrace
        /\ \A i \in 1..n :
              IF i % 2 = 1 THEN toks[i + 1] \notin Punctuation ELSE toks[i + 1] = Comma

Succeeded(resp) ==
    /\ "raises" \notin DOMAIN resp
    /\ resp.status_code = 200
    /\ "response" \in DOMAIN resp
    /\ \E i, j \in 1..Len(resp.response) :
          /\ i < j
          /\ resp.response[i] = LBrace
          /\ resp.response[j] = RBrace
          /\ \A k \in 1..(i - 1) : resp.response[k] # LBrace
          /\ \A k \in (j + 1)..Len(resp.response) : resp.response[k] # RBrace
          /\ IsObject(SubSeq(resp.response, i, j))

\* C14: whatever the outcomes of the calls, the analyzer returns every
\* idea it was given, in order: each finished batch has the length of its
\* batch, the k-th idea returned is the k-th unique idea, every idea was
\* sent to the generation capability, those after a failure too, and an
\* idea whose call failed is returned without analysis.
C14_AnalyzerFailureIsolated ==
    pstate \in {"analyzing", "done", "raised"} =>
       /\ Len(Processed) = Len(llm_calls)
       /\ Len(Processed) <= Len(unique_ideas)
       /\ Len(all_processed) = Min((batch_i - 1) * BatchSize, Len(unique_ideas))
       /\ batch_i > Len(batches) => Len(all_processed) = Len(unique_ideas)
       /\ \A k \in 1..Len(Processed) :
             /\ Strip(Processed[k]) = unique_ideas[k]
             /\ llm_calls[k].idea = unique_ideas[k]
             /\ ~Succeeded(llm_calls[k].resp) => Processed[k] = unique_ideas[k]

\* Three ideas in two batches: the first call raised, the second was
\* answered with status 500, and the third idea was still sent and analyzed.
C14_Witness ==
    /\ pstate = "done"
    /\ Len(all_processed) = 3
    /\ "raises" \in DOMAIN llm_calls[1].resp
    /\ "raises" \notin DOMAIN llm_calls[2].resp
    /\ llm_calls[2].resp.status_code = 500
    /\ HasAnalysis(all_processed[3])
    /\ ~HasAnalysis(all_processed[1])
    /\ ~HasAnalysis(all_processed[2])

\* C15: no idea of the normalizer carries an analysis, none gains one
\* before its call, and after its call an idea carries analysis, and with
\* it analysis_timestamp, if and only if the call answered 200 with a text
\* whose first "{" to last "}" is a JSON object.
C15_AnalysisOnlyOnSuccess ==
    /\ \A data \in RawRecords : ~HasAnalysis(normalize_data(data, "Reddit", now))
    /\ \A k \in 1..Len(input_ideas) : ~HasAnalysis(input_ideas[k])
    /\ \A k \in 1..Len(unique_ideas) : ~HasAnalysis(unique_ideas[k])
    /\ \A k \in 1..Len(Processed) :
          /\ HasAnalysis(Processed[k]) <=> Succeeded(llm_calls[k].resp)
          /\ HasAnalysis(Processed[k]) <=> "analysis_timestamp" \in DOMAIN Processed[k]

\* An idea made from a record that had a key "analysis" was analyzed, and
\* an idea answered with two JSON objects was not.
C15_Witness ==
    /\ pstate = "done"
    /\ Len(all_processed) = 2
    /\ "analysis" \in DOMAIN all_processed[1].raw_content.json
    /\ HasAnalysis(all_processed[1])
    /\ all_processed[1].analysis = [score |-> 40, tags |-> <<"ai">>]
    /\ "analysis_timestamp" \in DOMAIN all_processed[1]
    /\ llm_calls[2].resp \in {r \in Responses : "response" \in DOMAIN r /\ Len(r.response) = 7}
    /\ ~HasAnalysis(all_processed[2])

----------------------------------------------------------------------------
(* DatabaseManager.__init__, _init_supabase, _init_sqlite                  *)

SqliteTables == {"raw_ideas", "analyzed_ideas", "users", "feedback"}

\* _create_sqlite_tables(): CREATE TABLE IF NOT EXISTS, four times.
create_sqlite_tables(self) == [self EXCEPT !.tables = SqliteTables]

\* _init_sqlite(): the directory, the connection, the tables; whatever
\* fails is logged and raised again.
init_sqlite(self, config, env) ==
    IF env.sqlite = "makedirs_fails" \/ Get(config, "db_path", None) = "ideas.db"
    THEN [self EXCEPT !.raised = TRUE]
    ELSE IF env.sqlite = "connect_fails"
    THEN [self EXCEPT !.raised = TRUE]
    ELSE IF env.sqlite = "create_fails"
    THEN [self EXCEPT !.raised = TRUE, !.conn = "open"]
    ELSE create_sqlite_tables([self EXCEPT !.conn = "open"])

\* An _init_supabase whose handler raises again instead of falling back.
init_supabase_reraise(self, config, env) ==
    IF ~Truthy(env.SUPABASE_URL) \/ ~Truthy(env.SUPABASE_KEY)
    THEN [self EXCEPT !.raised = TRUE]
    ELSE IF env.create_client = "raises"
    THEN [self EXCEPT !.raised = TRUE]
    ELSE [self EXCEPT !.supabase = TRUE]

\* _init_supabase(): missing credentials raise ValueError inside the try;
\* the handler of every Exception sets db_type and calls _init_sqlite().
init_supabase(self, config, env) ==
    IF ~Truthy(env.SUPABASE_URL) \/ ~Truthy(env.SUPABASE_KEY)
    THEN init_sqlite([self EXCEPT !.db_type = "sqlite"], config, env)
    ELSE IF env.create_client = "raises"
    THEN init_sqlite([self EXCEPT !.db_type = "sqlite"], config, env)
    ELSE [self EXCEPT !.supabase = TRUE]

\* DatabaseManager(config).
DatabaseManager(config, env) ==
    LET self == [NoManager EXCEPT !.built = TRUE,
                                  !.db_type = Get(config, "type", "sqlite")]
    IN IF self.db_type = "supabase"
       THEN init_supabase(self, config, env)
       ELSE init_sqlite(self, config, env)

Configs ==
    { [type |-> "supabase", db_path |-> "data/ideas.db"],
      [type |-> "supabase", db_path |-> "ideas.db"],
      [type |-> "supabase"],
      [type |-> "sqlite", db_path |-> "data/ideas.db"],
      [type |-> "postgres", db_path |-> "data/ideas.db"],
      [db_path |-> "data/ideas.db"] }

Environments ==
    [SUPABASE_URL : {None, "", "https://x.supabase.co"},
     SUPABASE_KEY : {None, "", "key"},
     create_client : {"ok", "raises"},
     sqlite : {"ok", "makedirs_fails", "connect_fails", "create_fails"}]

InitCtor ==
    /\ InitStore({})
    /\ hostedUnique = FALSE
    /\ faults = FALSE
    /\ DedupIdle
    /\ ProcIdle
    /\ OrchIdle
    /\ db_config \in Configs
    /\ environment \in Environments
    /\ manager = NoManager
    /\ NotifIdle
    /\ RedditIdle
    /\ FilesIdle

Construct ==
    /\ ~manager.built
    /\ manager' = DatabaseManager(db_config, environment)
    /\ UNCHANGED <<db_config, environment, storeVars, dedupVars, procVars, orchVars,
                   notifVars, redditVars, fileVars>>

NextCtor == Construct

SpecCtor == InitCtor /\ [][NextCtor]_vars

\* close(): the connection is closed where db_type is "sqlite" and the
\* manager has a conn attribute.
close(self) ==
    IF self.db_type = "sqlite" /\ self.conn # "none"
    THEN [self EXCEPT !.conn = "closed"]
    ELSE self

\* close() on the manager the constructor returned.
Close ==
    /\ manager.built
    /\ ~manager.raised
    /\ last.op # "close"
    /\ manager' = close(manager)
    /\ last' = Call("close", <<>>, {}, 0, 0, 0, FALSE)
    /\ UNCHANGED <<db_config, environment, managers, hostedUnique, faults, raw_ideas,
                   analyzed_ideas, now, ret, dedupVars, procVars, orchVars, notifVars,
                   redditVars, fileVars>>

NextClose ==
    \/ Construct
    \/ Close

SpecClose == InitCtor /\ [][NextClose]_vars

\* C23: at most one call of the generation capability is outstanding; a
\* call is issued only when every call before it has returned or raised;
\* and the calls are issued for the ideas of the deduplicated list in its
\* order, from one batch to the next.
C23_GenerationCallsSequential ==
    /\ Cardinality(in_flight) <= 1
    /\ in_flight \subseteq {Len(llm_calls)}
    /\ Len(Processed) = Len(llm_calls) - Cardinality(in_flight)
    /\ Len(llm_calls) <= Len(unique_ideas)
    /\ \A i \in 1..Len(llm_calls) : llm_calls[i].idea = unique_ideas[i]

\* The first call of the second batch is outstanding: the calls of the
\* first batch have all returned.
C23_Witness ==
    /\ in_flight # {}
    /\ batch_i = 2
    /\ Len(all_processed) = BatchSize
    /\ Len(llm_calls) = BatchSize + 1

\* The records, as the adapter returned them, behind the ideas of one
\* source in a list of ideas.
RecordsOf(ideas, source_name) ==
    LET own == SelectSeq(ideas, LAMBDA idea : idea.source = source_name)
    IN  [k \in 1..Len(own) |-> own[k].raw_content.json]

\* s is t with some of its elements left out.
RECURSIVE IsSubsequence(_, _)
IsSubsequence(s, t) ==
    IF s = <<>> THEN TRUE
    ELSE IF t = <<>> THEN FALSE
    ELSE IF Head(s) = Head(t) THEN IsSubsequence(Tail(s), Tail(t))
    ELSE IsSubsequence(s, Tail(t))

\* The list of each later stage.
Stages == <<input_ideas, unique_ideas, Processed, relevant_ideas>>

\* C24: the records of one source that are in the normalized list, the
\* deduplicated list, the processed list or the relevant list are there
\* in the order in which the adapter returned them.
C24_SourceOrderPreserved ==
    ostate = "written" =>
        \A k \in 1..Len(adapters) :
            /\ RecordsOf(all_ideas, Sources[k]) = adapters[k].records
            /\ \A n \in 1..Len(Stages) :
                   IsSubsequence(RecordsOf(Stages[n], Sources[k]), adapters[k].records)

\* Both sources returned two records each, and two records of the second
\* source are in the relevant list behind one of the first.
C24_Witness ==
    /\ pstate = "done"
    /\ \A k \in 1..Len(adapters) : Len(adapters[k].records) = 2
    /\ Len(RecordsOf(relevant_ideas, Sources[2])) = 2
    /\ Len(RecordsOf(relevant_ideas, Sources[1])) = 1
    /\ Len(batches) = 2

\* The batches one after the other.
RECURSIVE Flatten(_)
Flatten(seqs) == IF seqs = <<>> THEN <<>> ELSE Head(seqs) \o Flatten(Tail(seqs))

----------------------------------------------------------------------------
(* Properties of the orchestrator.                                         *)

Failing(adapter) ==
    adapter.enabled /\ adapter.does \in {"init_raises", "run_raises"}

\* What source k is to contribute: nothing where it is disabled or its
\* adapter fails, else one idea per record.
RECURSIVE Contributions(_)
Contributions(k) ==
    IF k = 0 THEN <<>>
    ELSE Contributions(k - 1)
         \o (IF adapters[k].enabled /\ adapters[k].does = "returns"
             THEN [i \in 1..Len(adapters[k].records) |->
                      [title |-> Get(adapters[k].records[i], "title", <<>>),
                       description |-> Get(adapters[k].records[i], "description", <<>>),
                       url |-> Get(adapters[k].records[i], "url", ""),
                       source |-> Sources[k]]]
             ELSE <<>>)

Brief(idea) ==
    [title |-> idea.title, description |-> idea.description, url |-> idea.url,
     source |-> idea.source]

\* C16: an adapter that raises, in its constructor or in run(), gives no
\* idea; no exception reaches main; every call that ended gave what its
\* own adapter returns, whatever the others did; and main writes the ideas
\* of every source that did not fail.
C16_SourceFailureIsolated ==
    /\ ostate # "raised"
    /\ \A k \in 1..Len(futures) :
          futures[k] = "done" =>
             /\ ~results[k].raised
             /\ Failing(adapters[k]) => results[k].ideas = <<>>
             /\ (adapters[k].enabled /\ adapters[k].does = "returns")
                   => Len(results[k].ideas) = Len(adapters[k].records)
    /\ ostate = "written" =>
          /\ \A k \in 1..Len(futures) : futures[k] = "done"
          /\ output_file = all_ideas
          /\ [i \in 1..Len(output_file) |-> Brief(output_file[i])]
                = Contributions(Len(futures))

\* The first adapter raised in its constructor, the second in run(), and
\* the ideas of the third and fourth were written.
C16_Witness ==
    /\ ostate = "written"
    /\ adapters[1].does = "init_raises"
    /\ adapters[2].does = "run_raises"
    /\ adapters[3].enabled /\ adapters[3].does = "returns"
    /\ adapters[Len(adapters)].enabled /\ adapters[Len(adapters)].does = "returns"
    /\ Len(output_file) = Len(adapters[3].records) + Len(adapters[Len(adapters)].records)
    /\ Len(output_file) >= 2

\* The results of the sources named by `order`, one after the other.
RECURSIVE ConcatIn(_)
ConcatIn(order) ==
    IF order = <<>> THEN <<>>
    ELSE results[Head(order)].ideas \o ConcatIn(Tail(order))

ConfigurationOrder == [k \in 1..Len(futures) |-> k]

\* C22 as stated: the combined list holds the sources' results in the
\* order in which their calls ended.
C22_ConcatenatedInCompletionOrder ==
    ostate = "written" => output_file = ConcatIn(finished)

\* C22, amended: the combined list holds the sources' results in the order
\* of the sources in the configuration, whatever the order in which their
\* calls ended.
C22_ConcatenatedInConfigurationOrder ==
    /\ all_ideas = ConcatIn(SubSeq(ConfigurationOrder, 1, collected))
    /\ ostate = "written" => output_file = ConcatIn(ConfigurationOrder)

\* The call of the second source ended before the call of the first, both
\* gave ideas, and the ideas of the first come first in the file.
C22_Witness ==
    /\ ostate = "written"
    /\ finished[1] = 2
    /\ finished[2] = 1
    /\ results[1].ideas # <<>>
    /\ results[2].ideas # <<>>
    /\ output_file[1].source = Sources[1]
    /\ output_file[Len(results[1].ideas) + 1].source = Sources[2]

----------------------------------------------------------------------------
(* Properties of the constructor.                                          *)

HostedSelected == Get(db_config, "type", "sqlite") = "supabase"

CredentialsMissing ==
    environment.SUPABASE_URL \in {None, ""} \/ environment.SUPABASE_KEY \in {None, ""}

HostedUnavailable == CredentialsMissing \/ environment.create_client = "raises"

EmbeddedInitFails ==
    environment.sqlite # "ok" \/ Get(db_config, "db_path", None) = "ideas.db"

\* C17: built for the hosted backend without credentials, or with a
\* client that cannot be created, the manager is on the embedded store,
\* its connection open and its tables created, and nothing was raised;
\* when the embedded store's own initialization fails the constructor
\* raises.
C17_FallbackToEmbedded ==
    (manager.built /\ HostedSelected /\ HostedUnavailable) =>
        IF EmbeddedInitFails
        THEN manager.raised
        ELSE /\ ~manager.raised
             /\ manager.db_type = "sqlite"
             /\ manager.conn = "open"
             /\ manager.tables = SqliteTables

\* Both cases happened: a fallback that gave an embedded manager, here
\* with credentials present and a client that could not be created.
C17_Witness ==
    /\ manager.built
    /\ HostedSelected
    /\ ~CredentialsMissing
    /\ environment.create_client = "raises"
    /\ ~EmbeddedInitFails
    /\ manager.db_type = "sqlite"
    /\ manager.conn = "open"
    /\ ~manager.raised

----------------------------------------------------------------------------
(* Properties of stored rows.                                              *)

Copies(rows, row) == Cardinality({i \in 1..Len(rows) : rows[i] = row})

\* Every row of `old` is in `new` with the contents it had.
Kept(old, new) ==
    \A i \in 1..Len(old) : Copies(new, old[i]) >= Copies(old, old[i])

\* `new` is `old` without its rows created before some instant.
DeletedByAge(old, new) ==
    \E c \in 0..(MaxTime + 1) : new = SelectSeq(old, LAMBDA r : r.created_at >= c)

\* The hashes a store_analyzed call writes.
Restored(call) ==
    {idea.hash : idea \in {x \in Range(call.ideas) \ call.fails : "analysis" \in DOMAIN x}}

\* C18 as stated: no call changes a stored row; the one change is cleanup
\* deleting raw rows by age.
C18_StoredRowsImmutable ==
    [][\A b \in managers :
          /\ Kept(analyzed_ideas[b], analyzed_ideas'[b])
          /\ \/ Kept(raw_ideas[b], raw_ideas'[b])
             \/ last'.op = "cleanup" /\ DeletedByAge(raw_ideas[b], raw_ideas'[b])]_vars

\* C18, amended: a raw row changes only by cleanup deleting it by age; an
\* analyzed row changes only by store_analyzed replacing the row of a
\* fingerprint that is stored again.
C18_RowsChangeOnlyByReplaceOrCleanup ==
    [][\A b \in managers :
          /\ \A i \in 1..Len(analyzed_ideas[b]) :
                \/ Copies(analyzed_ideas'[b], analyzed_ideas[b][i])
                      >= Copies(analyzed_ideas[b], analyzed_ideas[b][i])
                \/ /\ last'.op = "store_analyzed"
                   /\ analyzed_ideas[b][i].hash \in Restored(last')
          /\ \/ Kept(raw_ideas[b], raw_ideas'[b])
             \/ last'.op = "cleanup" /\ DeletedByAge(raw_ideas[b], raw_ideas'[b])]_vars

\* The same fingerprint was stored twice with two analyses: the hosted
\* table holds both rows, the embedded table the second alone.
C18_Witness ==
    /\ last.op = "store_analyzed"
    /\ managers = Backends
    /\ Len(analyzed_ideas["supabase"]) = 2
    /\ analyzed_ideas["supabase"][1].hash = analyzed_ideas["supabase"][2].hash
    /\ analyzed_ideas["supabase"][1].score # analyzed_ideas["supabase"][2].score
    /\ analyzed_ideas["sqlite"] = <<analyzed_ideas["supabase"][2]>>

----------------------------------------------------------------------------
(* Properties of the storage step.                                         *)

\* C19: after the storage step over a processed list, every idea of the
\* list has a raw row with its fingerprint, every idea carrying an analysis
\* has an analyzed row, and no analyzed row was added for another idea.
C19_EveryProcessedIdeaReachesRaw ==
    [][last'.op = "archive" =>
          \A b \in managers :
             /\ \A idea \in Range(last'.ideas) : HasRow(raw_ideas'[b], idea.hash)
             /\ \A idea \in Range(WithAnalysis(last'.ideas)) :
                   HasRow(analyzed_ideas'[b], idea.hash)
             /\ \A i \in 1..Len(analyzed_ideas'[b]) :
                   \/ HasRow(analyzed_ideas[b], analyzed_ideas'[b][i].hash)
                   \/ analyzed_ideas'[b][i].hash \in Restored(last')]_vars

----------------------------------------------------------------------------
(* Properties of the filter and the storage layer together.                *)

RowHashes(rows) == {rows[i].hash : i \in 1..Len(rows)}

Compared == last.op = "get_top" /\ pstate \in {"done", "raised"}

\* One row per idea of the processed list that carries an analysis, and no
\* other row.
OneRowPerAnalyzed(b) ==
    /\ Len(analyzed_ideas[b]) = Len(WithAnalysis(all_processed))
    /\ RowHashes(analyzed_ideas[b]) = RowHashes(WithAnalysis(all_processed))

\* C20: store_analyzed over the list the analyzer returned, on an empty
\* store, makes one row per analyzed idea and none for the others, and
\* get_top with a limit of at least the length of the list and min_score
\* t returns the ideas that the relevance filter selects with threshold t.
C20_FilterAndStorageAgree ==
    Compared =>
       \A b \in managers :
          /\ OneRowPerAnalyzed(b)
          /\ pstate = "done"
          /\ Len(ret[b].result) = Len(relevant_ideas)
          /\ RowHashes(ret[b].result) = RowHashes(relevant_ideas)

\* Whenever the filter returns, the two agree.
AgreeWhenFilterReturns ==
    (Compared /\ pstate = "done") =>
       \A b \in managers :
          /\ OneRowPerAnalyzed(b)
          /\ Len(ret[b].result) = Len(relevant_ideas)
          /\ RowHashes(ret[b].result) = RowHashes(relevant_ideas)

----------------------------------------------------------------------------
(* Properties of close()                                                   *)

\* C27: after close() the connection the constructor opened is closed,
\* whatever the configured type.
C27_CloseReleasesConnection ==
    last.op = "close" => manager.conn # "open"

\* After close() the connection is closed where the type is "sqlite" or
\* was set to it by the fallback from "supabase".
C27_CloseReleasesWhereTypeIsSqlite ==
    last.op = "close" /\ manager.db_type = "sqlite" => manager.conn = "closed"

\* close() was called on a manager that fell back from "supabase".
C27_Witness ==
    /\ last.op = "close"
    /\ Get(db_config, "type", "sqlite") = "supabase"
    /\ manager.conn = "closed"

----------------------------------------------------------------------------
(* Properties of the handover from the processor to the notifier           *)

\* The ideas the last notification run delivered.
Delivered == SelectSeq(sends, LAMBDA s : s.ok)

\* C28: what a notification run sends comes from the output of the
\* processing run before it; after a run with no relevant idea nothing of
\* an earlier run is sent.
C28_NotificationsFresh ==
    last.op = "notify" =>
        \A i \in 1..Len(Delivered) :
            \E j \in 1..Len(all_processed) : all_processed[j].hash = Delivered[i].hash

\* What a notification run sends comes from the newest file of relevant
\* ideas, and from the run before it where that run had a relevant idea.
C28_NotificationsFromLatestFile ==
    last.op = "notify" =>
        /\ relevant_files = <<>> => sends = <<>>
        /\ \A i \in 1..Len(sends) :
               \E j \in 1..Len(relevant_files[Len(relevant_files)].ideas) :
                   relevant_files[Len(relevant_files)].ideas[j].hash = sends[i].hash
        /\ relevant_ideas # <<>> =>
               \A i \in 1..Len(sends) :
                   \E j \in 1..Len(relevant_ideas) : relevant_ideas[j].hash = sends[i].hash

\* The second run had relevant ideas and its notification run delivered
\* them.
C28_Witness ==
    /\ last.op = "notify"
    /\ now = 2
    /\ Len(relevant_files) = 2
    /\ Len(Delivered) = 2

----------------------------------------------------------------------------
(* Properties of the Reddit adapter                                        *)

\* The attempts made for a subreddit, oldest first.
AttemptsOf(subreddit_name) ==
    SelectSeq(fetch_log, LAMBDA a : a.subreddit = subreddit_name)

\* The posts of a subreddit in all_posts.
PostsOf(subreddit_name) ==
    SelectSeq(all_posts, LAMBDA post : post.subreddit = subreddit_name)

\* C25: a subreddit is attempted at most max_tries times; its posts in
\* the result are those of its one successful attempt, and none when it
\* has no successful attempt; after max_tries failures run() goes on with
\* the next subreddit; run() never raises and returns only when every
\* subreddit was attempted.
C25_RedditRetry ==
    /\ rstate # "raised"
    /\ \A k \in 1..Len(subreddits) :
           LET attempts == AttemptsOf(subreddits[k])
               n == Len(attempts)
           IN  /\ n <= max_tries
               /\ \A j \in 1..n : attempts[j].attempt = j
               /\ \A j \in 1..(n - 1) : ~attempts[j].ok
               /\ PostsOf(subreddits[k]) =
                      (IF n > 0 /\ attempts[n].ok THEN attempts[n].posts ELSE <<>>)
               /\ k < sub_i => n >= 1 /\ (attempts[n].ok \/ n = max_tries)
               /\ k > sub_i => n = 0
    /\ rstate = "returned" => sub_i = Len(subreddits) + 1

\* run() has returned; the first subreddit failed max_tries times after
\* gathering posts in a failed attempt, the second one succeeded at its
\* second attempt with posts.
C25_Witness ==
    /\ rstate = "returned"
    /\ Len(subreddits) = 2
    /\ Len(AttemptsOf(subreddits[1])) = max_tries
    /\ \A j \in 1..max_tries : ~AttemptsOf(subreddits[1])[j].ok
    /\ AttemptsOf(subreddits[1])[2].posts # <<>>
    /\ Len(AttemptsOf(subreddits[2])) = 2
    /\ AttemptsOf(subreddits[2])[1].posts # <<>>
    /\ all_posts # <<>>
    /\ all_posts = AttemptsOf(subreddits[2])[2].posts

----------------------------------------------------------------------------
(* Properties of the notifier.                                             *)

Notified == notify_ret.state = "returned" /\ last.op \in {"notify", "notify_store"}

\* The ideas of the call whose score reaches min_score, cut to `limit`.
Selected ==
    LET high == SelectSeq(last.ideas, LAMBDA x : ScoreOf(x) >= last.min_score)
    IN  SubSeq(high, 1, Min(last.limit, Len(high)))

NotifyCredentialsMissing ==
    environment.TELEGRAM_BOT_TOKEN \in {None, ""}
       \/ environment.TELEGRAM_CHAT_ID \in {None, ""}

\* C21: notify_top_ideas returns, whatever the sends did; it attempts
\* exactly the ideas of score >= min_score, cut to `limit`, in order, a
\* failed send not stopping the ones after it; the count it returns is
\* the number of sends that succeeded; and without credentials it sends
\* nothing and returns 0.
C21_NotifierContract ==
    /\ notify_ret.state # "raised"
    /\ Notified =>
          /\ Len(sends) <= last.limit
          /\ Len(sends) = Len(Selected)
          /\ \A i \in 1..Len(sends) :
                /\ sends[i].hash = Selected[i].hash
                /\ ScoreOf(Selected[i]) >= notifier.min_score
                /\ sends[i].ok => sends[i].called
          /\ notify_ret.count = Cardinality({i \in 1..Len(sends) : sends[i].ok})
          /\ NotifyCredentialsMissing =>
                /\ \A i \in 1..Len(sends) : ~sends[i].called
                /\ notify_ret.count = 0

\* Three ideas were selected; the send of the first failed, the second
\* could not be formatted, and the third was sent and counted.
C21_Witness ==
    /\ Notified
    /\ Len(sends) = 3
    /\ sends[1].called /\ ~sends[1].ok
    /\ ~sends[2].called
    /\ sends[3].ok
    /\ notify_ret.count = 1

====
